---- MODULE Spec2Model ----
(***************************************************************************)
(* State-machine model of the multi-stage eligibility pipeline of the      *)
(* UAE social support system: OrchestratorAgent.process and the three      *)
(* stage agents it drives (document processor, financial analyzer, career  *)
(* counselor), the enrichment (LLM) call with its retry loop, and the      *)
(* decision synthesis.                                                     *)
(*                                                                         *)
(* Python dicts are functions over string keys (records); a key that is    *)
(* absent in the dict is absent from the DOMAIN.  Values whose Python type *)
(* may vary (eligibility_score, the value returned by llm_analyze) are     *)
(* tagged records, so that isinstance checks and TypeErrors are part of    *)
(* the model.  Amounts are integers that are multiples of 10, so that the  *)
(* 0.7 haircut is exact.                                                   *)
(***************************************************************************)
EXTENDS Integers, Sequences, FiniteSets, TLC

VARIABLES
    llm_client,          \* the module-level client every agent holds: "none", "unavailable", "available"
    pc,                  \* position of the run inside OrchestratorAgent.process
    application_data,    \* the application record handed to process
    processing_results,  \* the per-run context built by process
    missing_docs,        \* `missing_docs`: local of process, parameter of _handle_document_failure
    baseline,            \* local `baseline` of the stage that is running
    attempt,             \* loop variable of generate_response (0 outside the loop)
    llm_payload,         \* what llm_analyze last returned to the stage in progress
    processing_history,  \* agent name -> list of log entries (BaseAgent.processing_history)
    error,               \* message of the AgentError raised to the caller, if any
    set_order,           \* order in which this interpreter process iterates a set of
                         \* document types (it follows from the process's string hash seed)
    suspended,           \* the locals of the runs of process that are waiting to be resumed
    completed,           \* what the callers of process have received so far, in order
    ai_call,             \* the call made on the AIProcessor: the method and its arguments
    ai_result,           \* what the call returned (None before it returns)
    processing_stats,    \* AIProcessor.processing_stats
    random_source,       \* the values the next calls of random.uniform return
    workflow_node,       \* the node the LangGraph workflow is about to run
    workflow_state,      \* the UAEApplicationState the workflow's nodes pass on
    agent_calls          \* the agent methods the workflow's nodes have called, in order

\* the locals of one run of OrchestratorAgent.process and of the calls below it
locals == <<pc, application_data, processing_results, missing_docs, baseline,
            attempt, llm_payload, error>>

\* the state of the scripted assessor (scripts/ai_processor.py)
ai_processor == <<ai_call, ai_result, processing_stats, random_source>>

\* the state of the LangGraph workflow (orchestration/langgraph_workflow.py)
workflow == <<workflow_node, workflow_state, agent_calls>>

\* the state of the agent pipeline (OrchestratorAgent and its agents)
pipeline == <<llm_client, pc, application_data, processing_results, missing_docs, baseline,
              attempt, llm_payload, processing_history, error, set_order, suspended,
              completed>>

vars == <<pipeline, ai_processor, workflow>>

-----------------------------------------------------------------------------
(* Bounds of the model *)

MaxDocs == 3

-----------------------------------------------------------------------------
(* Python values *)

None == [none |-> TRUE]
PyInt(n) == [int |-> n]
PyStr(s) == [str |-> s]
IsNumber(v) == "int" \in DOMAIN v

PyString(s) == [kind |-> "str", value |-> s]
PyDict(d) == [kind |-> "dict", value |-> d]
PyList(s) == [kind |-> "list", value |-> s]
PyNone == [kind |-> "NoneType"]
IsDict(v) == v.kind = "dict"

Get(d, k, default) == IF k \in DOMAIN d THEN d[k] ELSE default

EmptyDict == [k \in {} |-> TRUE]

Range(s) == {s[i] : i \in 1..Len(s)}

-----------------------------------------------------------------------------
(* Configuration *)

REQUIRED_DOCUMENT_TYPES == <<"emirates_id", "bank_statement", "utility_bill">>

max_retries == 3

AgentNames == {"decision_orchestrator", "document_processor",
               "financial_analyzer", "career_counselor"}

-----------------------------------------------------------------------------
(* Inputs: the documents of an application *)

NoType == "<None>"

DocumentTypes == {"emirates_id", "bank_statement", "utility_bill", "Utility_Bill", NoType}

DocumentChoices ==
    <<[document_type |-> "emirates_id", status |-> "uploaded"],
      [document_type |-> "bank_statement", status |-> "uploaded"],
      [document_type |-> "bank_statement", status |-> "invalid"],
      [document_type |-> "utility_bill", status |-> "uploaded"],
      [document_type |-> "Utility_Bill", status |-> "uploaded"],
      [document_type |-> NoType, status |-> "uploaded"]>>

\* the document lists of at most MaxDocs documents, one list per multiset of
\* documents (listed in the order of DocumentChoices)
DocumentLists ==
    UNION {{[i \in 1..n |-> DocumentChoices[f[i]]] :
               f \in {g \in [1..n -> 1..Len(DocumentChoices)] :
                          \A i \in 1..(n - 1) : g[i] <= g[i + 1]}} :
           n \in 0..MaxDocs}

\* str.lower on the document types of the model
lower(t) == IF t = "Utility_Bill" THEN "utility_bill" ELSE t

\* position of a document type in Python's string order (used by sorted)
TypeRank(t) ==
    CASE t = "bank_statement" -> 1
      [] t = "emirates_id" -> 2
      [] t = "utility_bill" -> 3

RECURSIVE sorted(_)
sorted(S) ==
    IF S = {} THEN <<>>
    ELSE LET m == CHOOSE x \in S : \A y \in S : TypeRank(x) <= TypeRank(y)
         IN <<m>> \o sorted(S \ {m})

\* every order in which iterating a Python set can list its elements
ListsOfSet(S) ==
    {q \in [1..Cardinality(S) -> S] : Range(q) = S}

\* `list(S)` for a set of document types, in the iteration order of the process
list_of_set(order, S) == SelectSeq(order, LAMBDA t : t \in S)

-----------------------------------------------------------------------------
(* Inputs: the applicant sections of an application.  Free text is drawn   *)
(* from a finite universe; `keyword in text` is the table Contains.        *)

Texts == {"", "Data Analyst", "Staff nurse, medical ward", "Bank teller",
          "Digital marketing"}

Contains(text, keyword) ==
    <<text, keyword>> \in {<<"Data Analyst", "data">>,
                           <<"Staff nurse, medical ward", "medical">>,
                           <<"Bank teller", "bank">>,
                           <<"Digital marketing", "digital">>}

Applicant(emirate, family_size, employment_status, monthly_salary, job_title, amount_requested, career_goals) ==
    [personal_info |-> [emirate |-> emirate, family_size |-> family_size],
     employment_info |-> [employment_status |-> employment_status,
                          monthly_salary |-> monthly_salary,
                          job_title |-> job_title],
     support_request |-> [amount_requested |-> amount_requested,
                          career_goals |-> career_goals]]

\* monthly_salary is Optional[float] in the API model: a number or None
Applicants ==
    {Applicant("dubai", 5, "unemployed", PyInt(0), "", 12000, "Data Analyst"),
     Applicant("dubai", 6, "employed", PyInt(10000), "Data Analyst", 100000, ""),
     Applicant("abu_dhabi", 3, "self_employed", PyInt(10000), "Bank teller", 12000, ""),
     Applicant("abu_dhabi", 1, "self_employed", PyInt(20000),
               "Staff nurse, medical ward", 100000, ""),
     Applicant("sharjah", 3, "employed", PyInt(4500), "", 12000, "Digital marketing"),
     Applicant("dubai", 4, "unemployed", None, "", 12000, "")}

Applications ==
    {[documents |-> d] @@ a : d \in DocumentLists, a \in Applicants}

-----------------------------------------------------------------------------
(* BaseAgent *)

LogEntry(agent_name, success, error_message) ==
    [agent |-> agent_name,
     success |-> success,
     error |-> error_message,
     llm_used |-> llm_client # "none",
     processing_mode |-> IF llm_client # "none" THEN "llm" ELSE "rule_based"]

log_processing(agent_name, success, error_message) ==
    [processing_history EXCEPT
        ![agent_name] = Append(@, LogEntry(agent_name, success, error_message))]

\* `self.llm_client and getattr(self.llm_client, "available", False)`
client_available == llm_client = "available"

_fallback_analysis == PyString("Analysis completed using rule-based approach")

-----------------------------------------------------------------------------
(* DocumentProcessorAgent *)

typed_documents(documents) ==
    SelectSeq(documents, LAMBDA doc : doc.document_type # NoType)

first_of_type(documents, t) ==
    LET first == CHOOSE i \in 1..Len(documents) :
                 /\ lower(documents[i].document_type) = t
                 /\ \A j \in 1..(i - 1) : lower(documents[j].document_type) # t
    IN documents[first]

_rule_based_result(input_data) ==
    LET documents == input_data.documents
        processed_docs == [i \in 1..Len(typed_documents(documents)) |->
                              lower(typed_documents(documents)[i].document_type)]
        defaults ==
            [emirates_id |-> [confidence_pct |-> 90],
             bank_statement |->
                 [monthly_income |-> input_data.employment_info.monthly_salary,
                  stability_score |-> 80]]
        others == Range(processed_docs) \ DOMAIN defaults
        extracted_data ==
            [t \in others |->
                [status |-> first_of_type(typed_documents(documents), t).status]]
            @@ defaults
        processed_set ==
            IF Range(processed_docs) # {}
            THEN sorted(Range(processed_docs))
            ELSE <<"emirates_id", "bank_statement">>
        documents_valid == Len(processed_docs) > 0
    IN [success |-> TRUE,
        documents_processed |-> processed_set,
        documents_valid |-> documents_valid,
        extracted_data |-> extracted_data,
        analysis_source |-> "rule_based"]

\* no document of the model has a file on disk: nothing is scanned
_collect_document_insights(documents) ==
    [i \in 1..Len(documents) |->
        [document_type |-> documents[i].document_type,
         status |-> documents[i].status,
         scanned |-> FALSE]]

-----------------------------------------------------------------------------
(* FinancialAnalyzerAgent *)

uae_thresholds ==
    [dubai |-> [low |-> 5000, medium |-> 15000, high |-> 25000],
     abu_dhabi |-> [low |-> 4500, medium |-> 14000, high |-> 23000],
     sharjah |-> [low |-> 4000, medium |-> 12000, high |-> 20000]]

Min(a, b) == IF a <= b THEN a ELSE b

\* variant: a family of one or two adds nothing to the score
_calculate_eligibility_score_small_family_unscored(emirate, monthly_salary, family_size, employment_info) ==
    LET thresholds == Get(uae_thresholds, emirate, uae_thresholds["dubai"])
        income == IF monthly_salary <= thresholds["low"] THEN 40
                  ELSE IF monthly_salary <= thresholds["medium"] THEN 30
                  ELSE 20
        family == IF family_size >= 5 THEN 30
                  ELSE IF family_size >= 3 THEN 20
                  ELSE 0
        employment_status == Get(employment_info, "employment_status", "")
        employment == IF employment_status = "employed" THEN 30
                      ELSE IF employment_status = "self_employed" THEN 20
                      ELSE 30
    IN Min(income + family + employment, 100)

_calculate_eligibility_score(emirate, monthly_salary, family_size, employment_info) ==
    LET thresholds == Get(uae_thresholds, emirate, uae_thresholds["dubai"])
        income == IF monthly_salary <= thresholds["low"] THEN 40
                  ELSE IF monthly_salary <= thresholds["medium"] THEN 30
                  ELSE 20
        family == IF family_size >= 5 THEN 30
                  ELSE IF family_size >= 3 THEN 20
                  ELSE 10
        employment_status == Get(employment_info, "employment_status", "")
        employment == IF employment_status = "employed" THEN 30
                      ELSE IF employment_status = "self_employed" THEN 20
                      ELSE 30
    IN Min(income + family + employment, 100)

_categorize_income(emirate, monthly_salary) ==
    LET thresholds == Get(uae_thresholds, emirate, uae_thresholds["dubai"])
    IN IF monthly_salary <= thresholds["low"] THEN "low_income"
       ELSE IF monthly_salary <= thresholds["medium"] THEN "medium_income"
       ELSE "high_income"

_identify_risk_factors(monthly_salary, family_size) ==
    (IF monthly_salary = 0 THEN <<"No current income">>
     ELSE IF monthly_salary < 3000 THEN <<"Very low income level">>
     ELSE <<>>)
    \o (IF family_size > 5 THEN <<"Large family size">> ELSE <<>>)

\* variant: the recommended amount is the requested amount, whatever the salary
_rule_based_assessment_uncapped(emirate, monthly_salary, family_size, employment_info, support_request) ==
    LET eligibility_score ==
            _calculate_eligibility_score(emirate, monthly_salary, family_size,
                                         employment_info)
        recommendation ==
            IF eligibility_score >= 80 THEN "approve"
            ELSE IF eligibility_score >= 60 THEN "conditional_approve"
            ELSE IF eligibility_score >= 40 THEN "review_required"
            ELSE "soft_decline"
        risk_level ==
            IF eligibility_score >= 80 THEN "low"
            ELSE IF eligibility_score >= 40 THEN "medium"
            ELSE "high"
        requested_amount == Get(support_request, "amount_requested", 0)
        recommended_amount ==
            IF recommendation # "soft_decline"
            THEN requested_amount
            ELSE 0
    IN [success |-> TRUE,
        eligibility_score |-> PyInt(eligibility_score),
        decision_recommendation |-> recommendation,
        recommended_support_amount |-> recommended_amount,
        risk_level |-> risk_level,
        risk_factors |-> _identify_risk_factors(monthly_salary, family_size),
        uae_assessment |->
            [emirate |-> emirate,
             income_category |-> _categorize_income(emirate, monthly_salary)],
        analysis_source |-> "rule_based"]

_rule_based_assessment(emirate, monthly_salary, family_size, employment_info, support_request) ==
    LET eligibility_score ==
            _calculate_eligibility_score(emirate, monthly_salary, family_size,
                                         employment_info)
        recommendation ==
            IF eligibility_score >= 80 THEN "approve"
            ELSE IF eligibility_score >= 60 THEN "conditional_approve"
            ELSE IF eligibility_score >= 40 THEN "review_required"
            ELSE "soft_decline"
        risk_level ==
            IF eligibility_score >= 80 THEN "low"
            ELSE IF eligibility_score >= 40 THEN "medium"
            ELSE "high"
        requested_amount == Get(support_request, "amount_requested", 0)
        recommended_amount ==
            IF recommendation # "soft_decline"
            THEN Min(requested_amount, monthly_salary * 6)
            ELSE 0
    IN [success |-> TRUE,
        eligibility_score |-> PyInt(eligibility_score),
        decision_recommendation |-> recommendation,
        recommended_support_amount |-> recommended_amount,
        risk_level |-> risk_level,
        risk_factors |-> _identify_risk_factors(monthly_salary, family_size),
        uae_assessment |->
            [emirate |-> emirate,
             income_category |-> _categorize_income(emirate, monthly_salary)],
        analysis_source |-> "rule_based"]

\* `monthly_salary <= thresholds["low"]` raises TypeError when the salary is None
financial_baseline_raises(input_data) ==
    ~IsNumber(Get(input_data.employment_info, "monthly_salary", PyInt(0)))

\* the baseline FinancialAnalyzerAgent.process computes from its input
financial_baseline(input_data) ==
    _rule_based_assessment(
        Get(input_data.personal_info, "emirate", "dubai"),
        Get(input_data.employment_info, "monthly_salary", PyInt(0)).int,
        Get(input_data.personal_info, "family_size", 1),
        input_data.employment_info,
        input_data.support_request)

_merge_llm_assessment(base, llm_result) ==
    LET updated ==
            [eligibility_score |->
                 Get(llm_result, "eligibility_score", base.eligibility_score),
             decision_recommendation |->
                 Get(llm_result, "decision_recommendation", base.decision_recommendation),
             recommended_support_amount |->
                 Get(llm_result, "recommended_support_amount",
                     base.recommended_support_amount),
             risk_level |-> Get(llm_result, "risk_level", base.risk_level),
             risk_factors |-> Get(llm_result, "risk_factors", base.risk_factors)]
        optional ==
            [k \in {"support_duration_months", "analysis_reasoning"}
                     \cap DOMAIN llm_result |-> llm_result[k]]
    IN [analysis_source |-> "llm"] @@ optional @@ updated @@ base

-----------------------------------------------------------------------------
(* CareerCounselorAgent *)

uae_programs ==
    [technology |->
        <<[name |-> "Digital Marketing Certificate",
           provider |-> "Dubai Future Academy", duration |-> "3 months"],
          [name |-> "Data Analysis Bootcamp",
           provider |-> "ADEK Training", duration |-> "4 months"]>>,
     healthcare |->
        <<[name |-> "Healthcare Administration",
           provider |-> "UAE Health Authority", duration |-> "6 months"]>>,
     finance |->
        <<[name |-> "Banking Excellence Program",
           provider |-> "Emirates Institute", duration |-> "5 months"]>>]

job_opportunities ==
    [dubai |-> <<"Digital Marketing Specialist", "Customer Service Manager",
                 "Healthcare Administrator">>,
     abu_dhabi |-> <<"Government Affairs Officer", "Banking Specialist",
                     "Project Coordinator">>]

AnyKeyword(current_job, career_goals, keywords) ==
    \E keyword \in keywords :
        Contains(current_job, keyword) \/ Contains(career_goals, keyword)

_identify_sector(current_job, career_goals) ==
    IF AnyKeyword(current_job, career_goals, {"technology", "digital", "data"})
    THEN "technology"
    ELSE IF AnyKeyword(current_job, career_goals, {"healthcare", "medical"})
    THEN "healthcare"
    ELSE IF AnyKeyword(current_job, career_goals, {"bank", "finance"})
    THEN "finance"
    ELSE "general"

_recommend_training(sector) == Get(uae_programs, sector, uae_programs["technology"])

_find_job_opportunities(emirate, sector) ==
    SubSeq(Get(job_opportunities, emirate, job_opportunities["dubai"]), 1, 3)

_create_progression_path ==
    <<"Complete skills assessment", "Enroll in training program",
      "Gain certifications", "Apply for positions", "Achieve career advancement">>

_identify_skill_gaps(current_job, career_goals) ==
    IF Contains(career_goals, "digital")
    THEN <<"Digital marketing", "Data analysis">>
    ELSE IF Contains(career_goals, "management")
    THEN <<"Leadership skills", "Project management">>
    ELSE <<"Professional development", "Communication skills">>

_rule_based_plan(emirate, sector, current_job, career_goals) ==
    [success |-> TRUE,
     enablement_plan |->
        [training_recommendations |-> _recommend_training(sector),
         job_opportunities |-> _find_job_opportunities(emirate, sector),
         career_progression_path |-> _create_progression_path,
         timeline |-> "6-12 months",
         success_metrics |-> <<"Skill certification", "Job placement",
                               "Income improvement">>],
     career_assessment |->
        [current_sector |-> sector,
         growth_potential |->
            IF sector \in {"technology", "healthcare"} THEN "high" ELSE "medium",
         skill_gaps |-> _identify_skill_gaps(current_job, career_goals)],
     analysis_source |-> "rule_based"]

\* the baseline CareerCounselorAgent.process computes from its input
career_baseline(input_data) ==
    LET current_job == Get(input_data.employment_info, "job_title", "")
        emirate == Get(input_data.personal_info, "emirate", "dubai")
        career_goals == Get(input_data.support_request, "career_goals", "")
    IN _rule_based_plan(emirate, _identify_sector(current_job, career_goals),
                        current_job, career_goals)

\* variant: the merged plan keeps the provenance tag of the baseline
_merge_llm_plan_untagged(base, llm_result) ==
    LET replaced ==
            [career_assessment |->
                 Get(llm_result, "career_assessment", base.career_assessment),
             enablement_plan |->
                 Get(llm_result, "enablement_plan", base.enablement_plan)]
        optional ==
            [k \in {"recommended_timeline"} \cap DOMAIN llm_result |-> llm_result[k]]
    IN optional @@ replaced @@ base

_merge_llm_plan(base, llm_result) ==
    LET replaced ==
            [career_assessment |->
                 Get(llm_result, "career_assessment", base.career_assessment),
             enablement_plan |->
                 Get(llm_result, "enablement_plan", base.enablement_plan)]
        optional ==
            [k \in {"recommended_timeline"} \cap DOMAIN llm_result |-> llm_result[k]]
    IN [analysis_source |-> "llm"] @@ optional @@ replaced @@ base

-----------------------------------------------------------------------------
(* The enrichment collaborator: what the model lets the LLM answer *)

FinancialPayloads ==
    {[success |-> TRUE, eligibility_score |-> PyInt(90),
      decision_recommendation |-> "approve",
      recommended_support_amount |-> 30000, support_duration_months |-> 12],
     [success |-> TRUE, eligibility_score |-> PyInt(75),
      decision_recommendation |-> "approve"],
     [success |-> TRUE, eligibility_score |-> PyInt(74),
      decision_recommendation |-> "approve", recommended_support_amount |-> 30000],
     [success |-> TRUE, eligibility_score |-> PyInt(50),
      decision_recommendation |-> "conditional_approve",
      recommended_support_amount |-> 30000, support_duration_months |-> 12],
     [success |-> TRUE, eligibility_score |-> PyInt(49),
      decision_recommendation |-> "conditional_approve"],
     [success |-> TRUE, decision_recommendation |-> "soft_decline",
      recommended_support_amount |-> 0, risk_level |-> "high"],
     [success |-> TRUE, eligibility_score |-> PyStr("high"),
      decision_recommendation |-> "approve"],
     [success |-> TRUE, eligibility_score |-> PyInt(150),
      decision_recommendation |-> "approve"],
     [success |-> FALSE, eligibility_score |-> PyInt(90),
      decision_recommendation |-> "approve", recommended_support_amount |-> 30000],
     [eligibility_score |-> PyInt(90), decision_recommendation |-> "approve",
      recommended_support_amount |-> 30000]}

CareerPayloads ==
    {[success |-> TRUE,
      enablement_plan |->
          [training_recommendations |-> <<[name |-> "AI Engineering Diploma"]>>,
           job_opportunities |-> <<"Machine Learning Engineer">>],
      recommended_timeline |-> "3 months"],
     [success |-> TRUE, enablement_plan |-> [timeline |-> "12 months"]],
     [success |-> TRUE,
      career_assessment |-> [current_sector |-> "general", growth_potential |-> "emerging"]],
     [success |-> TRUE, enablement_plan |-> PyStr("Enrol in a data analysis course")],
     [success |-> FALSE,
      enablement_plan |->
          [training_recommendations |-> <<[name |-> "AI Engineering Diploma"]>>,
           job_opportunities |-> <<"Machine Learning Engineer">>]],
     [enablement_plan |->
          [training_recommendations |-> <<[name |-> "AI Engineering Diploma"]>>,
           job_opportunities |-> <<"Machine Learning Engineer">>]]}

Payloads(stage) == IF stage = "financial" THEN FinancialPayloads ELSE CareerPayloads

\* the message content of a chat response: text that is not JSON, JSON that
\* is not an object, or a JSON object
ResponseTexts(stage) ==
    {[json |-> "invalid"], [json |-> "list"]}
        \cup {[json |-> "object", value |-> p] : p \in Payloads(stage)}

-----------------------------------------------------------------------------
(* OllamaCloudLLM *)

_create_fallback_response ==
    [success |-> FALSE,
     response |-> "Unable to produce structured output.",
     fallback_used |-> TRUE]

\* the value generate_structured_response returns for a response text
generate_structured_response(response_text) ==
    CASE response_text.json = "invalid" -> PyDict(_create_fallback_response)
      [] response_text.json = "list" -> PyList(<<"approve">>)
      [] response_text.json = "object" -> PyDict(response_text.value)

-----------------------------------------------------------------------------
(* OrchestratorAgent *)

_generate_next_steps(decision_status) ==
    IF decision_status = "approved"
    THEN <<"Support disbursement", "Training enrollment", "Progress monitoring">>
    ELSE IF decision_status = "conditional_approval"
    THEN <<"Complete requirements", "Attend counseling", "Begin training">>
    ELSE <<"Case worker review", "Additional information", "Alternative programs">>

\* variant: the list is read back from the document result, not the parameter
_handle_document_failure_from_doc_results(results, doc_results, missing_docs_arg) ==
    ("final_decision" :>
        [status |-> "documents_required",
         decision |-> "incomplete_application",
         missing_documents |-> Get(doc_results, "missing_documents", <<>>),
         next_steps |-> <<"Upload missing documents", "Ensure quality", "Resubmit">>])
    @@ results

\* the missing_docs parameter is PyNone (its default) or PyList(a list)
_handle_document_failure(results, doc_results, missing_docs_arg) ==
    LET missing == IF missing_docs_arg = PyNone \/ missing_docs_arg.value = <<>>
                   THEN <<>>
                   ELSE missing_docs_arg.value
    IN ("final_decision" :>
           [status |-> "documents_required",
            decision |-> "incomplete_application",
            missing_documents |-> missing,
            next_steps |-> <<"Upload missing documents", "Ensure quality", "Resubmit">>])
       @@ results

\* `score >= 75` / `score >= 50` on a score that is not a number raises TypeError
score_comparison_raises(financial_results) ==
    LET financial_score == Get(financial_results, "eligibility_score", PyInt(0))
        financial_recommendation ==
            Get(financial_results, "decision_recommendation", "review")
    IN /\ financial_recommendation \in {"approve", "conditional_approve"}
       /\ ~IsNumber(financial_score)

\* `enablement_plan.get(...)` on a plan that is a string raises AttributeError
plan_lookup_raises(career_results) ==
    "str" \in DOMAIN Get(career_results, "enablement_plan", EmptyDict)

_make_final_decision_raises(financial_results, career_results) ==
    score_comparison_raises(financial_results) \/ plan_lookup_raises(career_results)

\* the exception _make_final_decision raises, the comparison being evaluated first
_make_final_decision_exception(financial_results, career_results) ==
    IF score_comparison_raises(financial_results) THEN "TypeError" ELSE "AttributeError"

\* variant: the score thresholds are exclusive
_make_final_decision_strict_thresholds(financial_results, career_results) ==
    LET financial_score == Get(financial_results, "eligibility_score", PyInt(0)).int
        financial_recommendation ==
            Get(financial_results, "decision_recommendation", "review")
        recommended == Get(financial_results, "recommended_support_amount", 0)
        decision_status ==
            IF financial_recommendation = "approve" /\ financial_score > 75
            THEN "approved"
            ELSE IF financial_recommendation = "conditional_approve" /\ financial_score > 50
            THEN "conditional_approval"
            ELSE "review_required"
        support_amount ==
            IF decision_status = "approved" THEN recommended
            ELSE IF decision_status = "conditional_approval" THEN (recommended * 7) \div 10
            ELSE 0
        enablement_plan == Get(career_results, "enablement_plan", EmptyDict)
    IN [status |-> decision_status,
        financial_support |->
            [approved_amount |-> support_amount,
             duration_months |-> IF support_amount > 0 THEN 6 ELSE 0],
        economic_enablement |->
            [training_programs |-> Get(enablement_plan, "training_recommendations", <<>>),
             job_matching |-> Get(enablement_plan, "job_opportunities", <<>>)],
        next_steps |-> _generate_next_steps(decision_status)]

\* variant: the duration the enrichment proposed is used when there is one
_make_final_decision_llm_duration(financial_results, career_results) ==
    LET financial_score == Get(financial_results, "eligibility_score", PyInt(0)).int
        financial_recommendation ==
            Get(financial_results, "decision_recommendation", "review")
        recommended == Get(financial_results, "recommended_support_amount", 0)
        decision_status ==
            IF financial_recommendation = "approve" /\ financial_score >= 75
            THEN "approved"
            ELSE IF financial_recommendation = "conditional_approve" /\ financial_score >= 50
            THEN "conditional_approval"
            ELSE "review_required"
        support_amount ==
            IF decision_status = "approved" THEN recommended
            ELSE IF decision_status = "conditional_approval" THEN (recommended * 7) \div 10
            ELSE 0
        enablement_plan == Get(career_results, "enablement_plan", EmptyDict)
    IN [status |-> decision_status,
        financial_support |->
            [approved_amount |-> support_amount,
             duration_months |->
                 IF "support_duration_months" \in DOMAIN financial_results
                 THEN financial_results.support_duration_months
                 ELSE IF support_amount > 0 THEN 6 ELSE 0],
        economic_enablement |->
            [training_programs |-> Get(enablement_plan, "training_recommendations", <<>>),
             job_matching |-> Get(enablement_plan, "job_opportunities", <<>>)],
        next_steps |-> _generate_next_steps(decision_status)]

\* variant: enablement is left out when no support is approved
_make_final_decision_enablement_if_supported(financial_results, career_results) ==
    LET financial_score == Get(financial_results, "eligibility_score", PyInt(0)).int
        financial_recommendation ==
            Get(financial_results, "decision_recommendation", "review")
        recommended == Get(financial_results, "recommended_support_amount", 0)
        decision_status ==
            IF financial_recommendation = "approve" /\ financial_score >= 75
            THEN "approved"
            ELSE IF financial_recommendation = "conditional_approve" /\ financial_score >= 50
            THEN "conditional_approval"
            ELSE "review_required"
        support_amount ==
            IF decision_status = "approved" THEN recommended
            ELSE IF decision_status = "conditional_approval" THEN (recommended * 7) \div 10
            ELSE 0
        enablement_plan == Get(career_results, "enablement_plan", EmptyDict)
    IN [status |-> decision_status,
        financial_support |->
            [approved_amount |-> support_amount,
             duration_months |-> IF support_amount > 0 THEN 6 ELSE 0],
        economic_enablement |->
            [training_programs |->
                 IF support_amount > 0
                 THEN Get(enablement_plan, "training_recommendations", <<>>)
                 ELSE <<>>,
             job_matching |-> Get(enablement_plan, "job_opportunities", <<>>)],
        next_steps |-> _generate_next_steps(decision_status)]

_make_final_decision(financial_results, career_results) ==
    LET financial_score == Get(financial_results, "eligibility_score", PyInt(0)).int
        financial_recommendation ==
            Get(financial_results, "decision_recommendation", "review")
        recommended == Get(financial_results, "recommended_support_amount", 0)
        decision_status ==
            IF financial_recommendation = "approve" /\ financial_score >= 75
            THEN "approved"
            ELSE IF financial_recommendation = "conditional_approve" /\ financial_score >= 50
            THEN "conditional_approval"
            ELSE "review_required"
        support_amount ==
            IF decision_status = "approved" THEN recommended
            ELSE IF decision_status = "conditional_approval" THEN (recommended * 7) \div 10
            ELSE 0
        enablement_plan == Get(career_results, "enablement_plan", EmptyDict)
    IN [status |-> decision_status,
        financial_support |->
            [approved_amount |-> support_amount,
             duration_months |-> IF support_amount > 0 THEN 6 ELSE 0],
        economic_enablement |->
            [training_programs |-> Get(enablement_plan, "training_recommendations", <<>>),
             job_matching |-> Get(enablement_plan, "job_opportunities", <<>>)],
        next_steps |-> _generate_next_steps(decision_status)]

-----------------------------------------------------------------------------
(* The run: state functions *)

stage_result(stage_name) == processing_results.processing_stages[stage_name]

stage_done(stage_name) == stage_name \in DOMAIN processing_results.processing_stages

\* `{**application_data, **doc_results}`
enhanced_data == stage_result("document_processing") @@ application_data

store_stage(stage_name, result) ==
    [processing_results EXCEPT
        !.processing_stages = (stage_name :> result) @@ @]

-----------------------------------------------------------------------------
(* Initial state: the agents are constructed, no application is in hand *)

InitPipeline ==
    /\ llm_client \in {"none", "unavailable", "available"}
    /\ pc = "idle"
    /\ application_data = None
    /\ processing_results = None
    /\ missing_docs = PyNone
    /\ baseline = None
    /\ attempt = 0
    /\ llm_payload = None
    /\ processing_history = [a \in AgentNames |-> <<>>]
    /\ error = "none"
    /\ set_order \in ListsOfSet(Range(REQUIRED_DOCUMENT_TYPES))
    /\ suspended = <<>>
    /\ completed = <<>>

\* AIProcessor.__init__
InitAIProcessor ==
    /\ ai_call = None
    /\ ai_result = None
    /\ processing_stats =
           [total_processed |-> 0, total_approved |-> 0, average_score |-> 0,
            processing_time_avg |-> 0]
    /\ random_source = None

\* UAESocialSupportWorkflow.__init__: no application is being processed
InitWorkflow ==
    /\ workflow_node = "idle"
    /\ workflow_state = None
    /\ agent_calls = <<>>

Init == InitPipeline /\ InitAIProcessor /\ InitWorkflow

-----------------------------------------------------------------------------
(* OrchestratorAgent.process, entry *)

Process(application) ==
    /\ pc = "idle"
    /\ application_data' = application
    /\ processing_results' =
           [application_id |-> Get(application, "application_id", None),
            processing_stages |-> EmptyDict,
            final_decision |-> EmptyDict,
            processing_timeline |-> <<>>]
    /\ pc' = "doc_start"
    /\ UNCHANGED <<ai_processor, workflow, llm_client, set_order, suspended, completed, missing_docs, baseline, attempt, llm_payload,
                   processing_history, error>>

-----------------------------------------------------------------------------
(* Stage 1: DocumentProcessorAgent.process *)

DocumentReturn(result) ==
    /\ processing_history' = log_processing("document_processor", TRUE, "none")
    /\ processing_results' = store_stage("document_processing", result)
    /\ baseline' = None
    /\ pc' = "doc_check"

DocumentProcess ==
    /\ pc = "doc_start"
    /\ LET result ==
               [document_insights |->
                    _collect_document_insights(application_data.documents)]
               @@ _rule_based_result(application_data)
       IN IF client_available
          THEN /\ baseline' = result
               /\ pc' = "doc_llm"
               /\ UNCHANGED <<processing_results, processing_history>>
          ELSE DocumentReturn(result)
    /\ UNCHANGED <<ai_processor, workflow, llm_client, set_order, suspended, completed, application_data, missing_docs, attempt, llm_payload, error>>

\* variant: llm_analyze takes the scanned images as well
llm_analyze_parameters_with_images == {"prompt", "context", "output_format", "images"}

\* the parameters of BaseAgent.llm_analyze
llm_analyze_parameters == {"prompt", "context", "output_format"}

\* the keyword arguments _analyze_with_llm passes besides prompt and context
document_call_keywords == {"output_format", "images"}

\* calling a function with a keyword it does not have raises TypeError
llm_analyze_raises(keywords) == ~(keywords \subseteq llm_analyze_parameters)

\* what llm_analyze would hand back to the document stage
DocumentPayloads ==
    {[success |-> TRUE, documents_processed |-> <<"emirates_id">>,
      documents_valid |-> FALSE, overall_confidence |-> 40],
     [success |-> FALSE, documents_valid |-> FALSE]}

DocumentAnswers == {PyDict(p) : p \in DocumentPayloads} \cup {_fallback_analysis}

_merge_llm_results(base, llm_result) ==
    LET replaced ==
            [documents_processed |->
                 Get(llm_result, "documents_processed",
                     Get(base, "documents_processed", <<>>)),
             documents_valid |->
                 Get(llm_result, "documents_valid", Get(base, "documents_valid", TRUE)),
             extracted_data |->
                 Get(llm_result, "extracted_data", Get(base, "extracted_data", EmptyDict)),
             analysis_source |-> "llm"]
        optional ==
            [k \in {"authenticity_scores", "issues_found", "overall_confidence"}
                       \cap DOMAIN llm_result |-> llm_result[k]]
    IN replaced @@ optional @@ base

\* the value DocumentProcessorAgent._analyze_with_llm returns for an answer
document_llm_result(answer) ==
    IF IsDict(answer) /\ Get(answer.value, "success", TRUE) # FALSE
    THEN answer
    ELSE PyNone

\* _analyze_with_llm passes images= to BaseAgent.llm_analyze: when the call
\* raises, the helper catches the error and returns None
DocumentAnalyzeWithLLM ==
    /\ pc = "doc_llm"
    /\ IF llm_analyze_raises(document_call_keywords)
       THEN DocumentReturn(baseline)
       ELSE \E answer \in DocumentAnswers :
                LET llm_result == document_llm_result(answer)
                IN IF llm_result # PyNone
                   THEN DocumentReturn(_merge_llm_results(baseline, llm_result.value))
                   ELSE DocumentReturn(baseline)
    /\ UNCHANGED <<ai_processor, workflow, llm_client, set_order, suspended, completed, application_data, missing_docs, attempt, llm_payload, error>>

-----------------------------------------------------------------------------
(* The document completeness check of OrchestratorAgent.process *)

\* variant: the check forgets the missing document types
document_check_fails_ignoring_missing(doc_results, missing) ==
    \/ ~Get(doc_results, "success", FALSE)
    \/ ~Get(doc_results, "documents_valid", FALSE)

\* variant: the check reads documents_valid the wrong way round
document_check_fails_inverted_valid(doc_results, missing) ==
    \/ ~Get(doc_results, "success", FALSE)
    \/ Get(doc_results, "documents_valid", FALSE)
    \/ missing # <<>>

document_check_fails(doc_results, missing) ==
    \/ ~Get(doc_results, "success", FALSE)
    \/ ~Get(doc_results, "documents_valid", FALSE)
    \/ missing # <<>>

CheckDocuments ==
    /\ pc = "doc_check"
    /\ LET processed_docs == Range(stage_result("document_processing").documents_processed)
           required_docs == Range(REQUIRED_DOCUMENT_TYPES)
           missing == list_of_set(set_order, required_docs \ processed_docs)
           doc_results == [missing_documents |-> missing]
                              @@ stage_result("document_processing")
           checked == store_stage("document_processing", doc_results)
       IN /\ missing_docs' = PyList(missing)
          /\ IF document_check_fails(doc_results, missing)
             THEN /\ processing_results' =
                         _handle_document_failure(checked, doc_results, PyList(missing))
                  /\ pc' = "returned"
             ELSE /\ processing_results' = checked
                  /\ pc' = "fin_start"
    /\ UNCHANGED <<ai_processor, workflow, llm_client, set_order, suspended, completed, application_data, baseline,
                   attempt, llm_payload, processing_history, error>>

-----------------------------------------------------------------------------
(* BaseAgent.llm_analyze -> generate_structured_response -> generate_response *)

LlmPc(stage) == IF stage = "financial" THEN "fin_llm" ELSE "career_llm"

\* variant: when llm_analyze returns, the stage starts over
MergePc_starting_over(stage) == IF stage = "financial" THEN "fin_start" ELSE "career_start"

MergePc(stage) == IF stage = "financial" THEN "fin_merge" ELSE "career_merge"

SleepPc(stage) == IF stage = "financial" THEN "fin_sleep" ELSE "career_sleep"

\* variant: a failed attempt is followed by the next one at once
ChatFails_without_backoff(stage) ==
    /\ pc = LlmPc(stage)
    /\ attempt < max_retries
    /\ IF attempt = max_retries - 1
       THEN /\ llm_payload' = _fallback_analysis
            /\ pc' = MergePc(stage)
            /\ attempt' = 0
       ELSE /\ attempt' = attempt + 1
            /\ UNCHANGED <<llm_payload, pc>>
    /\ UNCHANGED <<ai_processor, workflow, llm_client, set_order, suspended, completed, application_data,
                   processing_results, missing_docs, baseline, processing_history, error>>

\* one iteration of the retry loop in which _chat raises: the last one lets the
\* exception out, and llm_analyze turns it into the fallback string; the
\* others go on to `await asyncio.sleep(1)`
ChatFails(stage) ==
    /\ pc = LlmPc(stage)
    /\ attempt < max_retries
    /\ IF attempt = max_retries - 1
       THEN /\ llm_payload' = _fallback_analysis
            /\ pc' = MergePc(stage)
            /\ attempt' = 0
       ELSE /\ pc' = SleepPc(stage)
            /\ UNCHANGED <<llm_payload, attempt>>
    /\ UNCHANGED <<ai_processor, workflow, llm_client, set_order, suspended, completed, application_data,
                   processing_results, missing_docs, baseline, processing_history, error>>

\* the sleep is over: the loop goes to its next iteration
Sleep(stage) ==
    /\ pc = SleepPc(stage)
    /\ pc' = LlmPc(stage)
    /\ attempt' = attempt + 1
    /\ UNCHANGED <<ai_processor, workflow, llm_client, set_order, suspended, completed, application_data,
                   processing_results, missing_docs, baseline, llm_payload,
                   processing_history, error>>

\* one iteration in which _chat returns a response
ChatResponds(stage, response_text) ==
    /\ pc = LlmPc(stage)
    /\ attempt < max_retries
    /\ llm_payload' = generate_structured_response(response_text)
    /\ pc' = MergePc(stage)
    /\ attempt' = 0
    /\ UNCHANGED <<ai_processor, workflow, llm_client, set_order, suspended, completed, application_data,
                   processing_results, missing_docs, baseline, processing_history, error>>

\* variant: the success indicator of the payload is not looked at
payload_accepted_any_dict(payload) == IsDict(payload)

\* the test `isinstance(llm_payload, dict) and llm_payload.get("success")`
payload_accepted(payload) ==
    IsDict(payload) /\ Get(payload.value, "success", FALSE)

-----------------------------------------------------------------------------
(* Stage 2: FinancialAnalyzerAgent.process *)

FinancialReturn(result) ==
    /\ processing_history' = log_processing("financial_analyzer", TRUE, "none")
    /\ processing_results' = store_stage("financial_analysis", result)
    /\ baseline' = None
    /\ pc' = "career_start"

\* variant: the coordinator logs the failure of the stage and returns its context
FinancialRaise_swallowed ==
    /\ processing_history' =
           [processing_history EXCEPT
               !["financial_analyzer"] =
                   Append(@, LogEntry("financial_analyzer", FALSE,
                                      "Financial analysis failed: TypeError")),
               !["decision_orchestrator"] =
                   Append(@, LogEntry("decision_orchestrator", FALSE,
                       "Orchestration failed: Financial analysis failed: TypeError"))]
    /\ error' = error
    /\ pc' = "returned"

\* the except branch of FinancialAnalyzerAgent.process, and with it the except
\* branch of OrchestratorAgent.process
FinancialRaise ==
    /\ processing_history' =
           [processing_history EXCEPT
               !["financial_analyzer"] =
                   Append(@, LogEntry("financial_analyzer", FALSE,
                                      "Financial analysis failed: TypeError")),
               !["decision_orchestrator"] =
                   Append(@, LogEntry("decision_orchestrator", FALSE,
                       "Orchestration failed: Financial analysis failed: TypeError"))]
    /\ error' = "Orchestration failed: Financial analysis failed: TypeError"
    /\ pc' = "raised"

FinancialProcess ==
    /\ pc = "fin_start"
    /\ IF financial_baseline_raises(enhanced_data)
       THEN /\ FinancialRaise
            /\ UNCHANGED <<processing_results, baseline, attempt, llm_payload>>
       ELSE IF client_available
       THEN /\ baseline' = financial_baseline(enhanced_data)
            /\ pc' = "fin_llm"
            /\ attempt' = 0
            /\ llm_payload' = None
            /\ UNCHANGED <<processing_results, processing_history, error>>
       ELSE /\ FinancialReturn(financial_baseline(enhanced_data))
            /\ llm_payload' = None
            /\ UNCHANGED <<attempt, error>>
    /\ UNCHANGED <<ai_processor, workflow, llm_client, set_order, suspended, completed, application_data, missing_docs>>

FinancialMerge ==
    /\ pc = "fin_merge"
    /\ IF payload_accepted(llm_payload)
       THEN FinancialReturn(_merge_llm_assessment(baseline, llm_payload.value))
       ELSE FinancialReturn(baseline)
    /\ UNCHANGED <<ai_processor, workflow, llm_client, set_order, suspended, completed, application_data, missing_docs, attempt, llm_payload, error>>

-----------------------------------------------------------------------------
(* Stage 3: CareerCounselorAgent.process *)

CareerReturn(result) ==
    /\ processing_history' = log_processing("career_counselor", TRUE, "none")
    /\ processing_results' = store_stage("career_assessment", result)
    /\ baseline' = None
    /\ pc' = "decision"

CareerProcess ==
    /\ pc = "career_start"
    /\ IF client_available
       THEN /\ baseline' = career_baseline(enhanced_data)
            /\ pc' = "career_llm"
            /\ attempt' = 0
            /\ llm_payload' = None
            /\ UNCHANGED <<processing_results, processing_history>>
       ELSE /\ CareerReturn(career_baseline(enhanced_data))
            /\ llm_payload' = None
            /\ UNCHANGED attempt
    /\ UNCHANGED <<ai_processor, workflow, llm_client, set_order, suspended, completed, application_data, missing_docs, error>>

CareerMerge ==
    /\ pc = "career_merge"
    /\ IF payload_accepted(llm_payload)
       THEN CareerReturn(_merge_llm_plan(baseline, llm_payload.value))
       ELSE CareerReturn(baseline)
    /\ UNCHANGED <<ai_processor, workflow, llm_client, set_order, suspended, completed, application_data, missing_docs, attempt, llm_payload, error>>

-----------------------------------------------------------------------------
(* Stage 4: the final decision, and the end of OrchestratorAgent.process *)

\* error_msg = f"Orchestration failed: {str(e)}"
orchestration_failed(exception) ==
    IF exception = "TypeError" THEN "Orchestration failed: TypeError"
    ELSE "Orchestration failed: AttributeError"

MakeFinalDecision ==
    /\ pc = "decision"
    /\ LET financial_results == stage_result("financial_analysis")
           career_results == stage_result("career_assessment")
       IN IF _make_final_decision_raises(financial_results, career_results)
          THEN /\ error' = orchestration_failed(
                                _make_final_decision_exception(financial_results,
                                                               career_results))
               /\ processing_history' =
                      log_processing("decision_orchestrator", FALSE, error')
               /\ pc' = "raised"
               /\ UNCHANGED processing_results
          ELSE /\ processing_results' =
                      [processing_results EXCEPT
                          !.final_decision =
                              _make_final_decision(financial_results, career_results)]
               /\ processing_history' =
                      log_processing("decision_orchestrator", TRUE, "none")
               /\ pc' = "returned"
               /\ UNCHANGED error
    /\ UNCHANGED <<ai_processor, workflow, llm_client, set_order, suspended, completed, application_data, missing_docs, baseline, attempt,
                   llm_payload>>

-----------------------------------------------------------------------------

Next ==
    \/ \E application \in Applications : Process(application)
    \/ DocumentProcess
    \/ DocumentAnalyzeWithLLM
    \/ CheckDocuments
    \/ FinancialProcess
    \/ \E stage \in {"financial", "career"} : ChatFails(stage)
    \/ \E stage \in {"financial", "career"} : Sleep(stage)
    \/ \E stage \in {"financial", "career"} :
           \E response_text \in ResponseTexts(stage) : ChatResponds(stage, response_text)
    \/ FinancialMerge
    \/ CareerProcess
    \/ CareerMerge
    \/ MakeFinalDecision

Spec == Init /\ [][Next]_vars

-----------------------------------------------------------------------------
(* _handle_document_failure called on its own, as the unit tests call it *)

MaxMissing == 3

MissingDocumentNames == {"emirates_id", "bank_statement", "utility_bill", "cv"}

MissingDocsArguments ==
    {PyNone} \cup
        {PyList(q) : q \in UNION {[1..n -> MissingDocumentNames] : n \in 0..MaxMissing}}

HandlerResults ==
    {[processing_stages |-> EmptyDict],
     [processing_stages |-> EmptyDict, final_decision |-> EmptyDict,
      processing_timeline |-> <<>>]}

HandlerDocResults ==
    {EmptyDict,
     [documents_processed |-> <<"emirates_id">>, documents_valid |-> TRUE]}

HandleDocumentFailureCall(results, doc_results, missing_docs_arg) ==
    /\ pc = "idle"
    /\ missing_docs' = missing_docs_arg
    /\ processing_results' =
           _handle_document_failure(results, doc_results, missing_docs_arg)
    /\ pc' = "handled"
    /\ UNCHANGED <<ai_processor, workflow, llm_client, set_order, suspended, completed, application_data, baseline, attempt, llm_payload,
                   processing_history, error>>

NextHandler ==
    \E results \in HandlerResults, doc_results \in HandlerDocResults,
       missing_docs_arg \in MissingDocsArguments :
        HandleDocumentFailureCall(results, doc_results, missing_docs_arg)

SpecHandler == Init /\ [][NextHandler]_vars

-----------------------------------------------------------------------------
(* State functions used by the properties *)

final_decision == processing_results.final_decision

started == pc # "idle"

finished == pc \in {"returned", "raised"}

required == Range(REQUIRED_DOCUMENT_TYPES)

\* the document types the applicant submitted, as the pipeline names them
submitted ==
    IF ~started THEN {} ELSE
    {lower(doc.document_type) :
        doc \in {d \in Range(application_data.documents) : d.document_type # NoType}}

some_document_invalid ==
    started /\ \E doc \in Range(application_data.documents) : doc.status = "invalid"

\* financial_agent.process / career_agent.process has been entered in this run
financial_invoked ==
    pc \in {"fin_llm", "fin_sleep", "fin_merge"} \/ processing_history["financial_analyzer"] # <<>>

career_invoked ==
    pc \in {"career_llm", "career_sleep", "career_merge"} \/ processing_history["career_counselor"] # <<>>

\* the completeness check of process has run on the document result
document_check_done ==
    /\ started
    /\ stage_done("document_processing")
    /\ "missing_documents" \in DOMAIN stage_result("document_processing")

document_check_passed ==
    /\ document_check_done
    /\ stage_result("document_processing").success
    /\ stage_result("document_processing").documents_valid
    /\ stage_result("document_processing").missing_documents = <<>>

documents_required == pc = "returned" /\ final_decision.status = "documents_required"

\* the run returned a decision made by _make_final_decision
decision_made == pc = "returned" /\ stage_done("career_assessment")

-----------------------------------------------------------------------------
(* C1: the financial and career stages are entered only after the document *)
(* completeness check has completed and succeeded; a run whose check fails *)
(* (a required type is missing, the document result is unsuccessful or the *)
(* documents are not valid) returns documents_required and never invokes   *)
(* financial_agent.process or career_agent.process.                        *)

C1_StagesOnlyAfterDocumentCheck ==
    /\ (financial_invoked \/ career_invoked) => document_check_passed
    /\ (finished /\ ~document_check_passed) =>
           documents_required /\ ~financial_invoked /\ ~career_invoked
    /\ (finished /\ ~(required \subseteq submitted)) =>
           documents_required /\ ~financial_invoked /\ ~career_invoked

\* Scenario B: {emirates_id, utility_bill} submitted, bank_statement missing
C1_Witness ==
    /\ documents_required
    /\ submitted = {"emirates_id", "utility_bill"}
    /\ final_decision.missing_documents = <<"bank_statement">>
    /\ ~financial_invoked /\ ~career_invoked

-----------------------------------------------------------------------------
(* C2: the missing_documents the pipeline reports are exactly the required *)
(* document types that were not submitted (required - submitted), for      *)
(* every set of submitted types, the empty set included.                   *)

C2_MissingIsRequiredMinusSubmitted ==
    /\ document_check_done =>
           LET missing == stage_result("document_processing").missing_documents
           IN /\ Range(missing) = required \ submitted
              /\ Len(missing) = Cardinality(required \ submitted)
    /\ documents_required =>
           Range(final_decision.missing_documents) = required \ submitted

-----------------------------------------------------------------------------
(* C3: when a submitted document marks itself invalid, the run ends in     *)
(* documents_required, even if every required document type is present.    *)

C3_InvalidDocumentEndsInDocumentsRequired ==
    (finished /\ some_document_invalid) => documents_required

-----------------------------------------------------------------------------
(* C4: when no required document type is missing and every submitted       *)
(* document is valid, the run is never short-circuited: it goes through    *)
(* the financial stage, the career stage and the decision synthesis, and   *)
(* the status it returns is not documents_required.                        *)

C4_CompleteDocumentsNeverShortCircuit ==
    (required \subseteq submitted /\ ~some_document_invalid) =>
        /\ ~documents_required
        /\ pc \notin {"idle", "doc_start", "doc_llm", "doc_check"} => document_check_passed
        /\ pc = "returned" =>
               /\ stage_done("financial_analysis")
               /\ stage_done("career_assessment")
               /\ processing_history["decision_orchestrator"] # <<>>
               /\ final_decision.status \in
                      {"approved", "conditional_approval", "review_required"}

C4_Witness ==
    /\ pc = "returned"
    /\ required \subseteq submitted
    /\ ~some_document_invalid
    /\ \E doc \in Range(application_data.documents) : doc.document_type = "Utility_Bill"
    /\ final_decision.status = "approved"

-----------------------------------------------------------------------------
(* C5: a final decision with status documents_required has an              *)
(* approved_amount of 0.                                                   *)

C5_DocumentsRequiredApprovesNothing ==
    documents_required =>
        /\ "financial_support" \in DOMAIN final_decision
        /\ final_decision.financial_support.approved_amount = 0

-----------------------------------------------------------------------------
(* C6: _handle_document_failure always sets the status documents_required, *)
(* includes next_steps, and reports as missing_documents exactly the list  *)
(* it was given, or the empty list when it was given none.                 *)

handler_returned ==
    pc = "handled" \/ (pc = "returned" /\ ~stage_done("financial_analysis"))

C6_HandlerReportsTheListGiven ==
    handler_returned =>
        /\ final_decision.status = "documents_required"
        /\ "next_steps" \in DOMAIN final_decision
        /\ final_decision.missing_documents =
               (IF missing_docs = PyNone THEN <<>> ELSE missing_docs.value)

C6_Witness ==
    /\ pc = "handled"
    /\ missing_docs = PyList(<<"bank_statement", "cv">>)
    /\ final_decision.status = "documents_required"
    /\ final_decision.missing_documents = <<"bank_statement", "cv">>

-----------------------------------------------------------------------------
(* C7: a decision made after a passed document check follows from the      *)
(* financial stage output alone: "approve" with a score of at least 75     *)
(* gives approved with the recommended amount; otherwise                   *)
(* "conditional_approve" with a score of at least 50 gives                 *)
(* conditional_approval with 0.7 times the recommended amount; anything    *)
(* else gives review_required with amount 0.                               *)

C7_DecisionFollowsFinancialOutput ==
    decision_made =>
        LET financial == stage_result("financial_analysis")
            recommendation == financial.decision_recommendation
            score == financial.eligibility_score
            recommended == financial.recommended_support_amount
            approved_amount == final_decision.financial_support.approved_amount
        IN IF recommendation = "approve" /\ IsNumber(score) /\ score.int >= 75
           THEN /\ final_decision.status = "approved"
                /\ approved_amount = recommended
           ELSE IF recommendation = "conditional_approve" /\ IsNumber(score)
                   /\ score.int >= 50
           THEN /\ final_decision.status = "conditional_approval"
                /\ 10 * approved_amount = 7 * recommended
           ELSE /\ final_decision.status = "review_required"
                /\ approved_amount = 0

\* the boundary score 75 with a positive recommended amount
C7_Witness ==
    /\ decision_made
    /\ stage_result("financial_analysis").decision_recommendation = "approve"
    /\ stage_result("financial_analysis").eligibility_score = PyInt(75)
    /\ final_decision.status = "approved"
    /\ final_decision.financial_support.approved_amount > 0

-----------------------------------------------------------------------------
(* C8: in a decision made by the synthesizer, duration_months is 6 exactly *)
(* when approved_amount is positive and 0 otherwise, whatever duration the *)
(* enrichment proposed.                                                    *)

-----------------------------------------------------------------------------
(* C9: whatever the status of a decision made by the synthesizer, its      *)
(* training_programs and job_matching are the training recommendations and *)
(* job opportunities of the career stage's enablement plan (empty where    *)
(* the plan has none).                                                     *)

C9_EnablementCopiedFromCareerStage ==
    decision_made =>
        LET plan == Get(stage_result("career_assessment"), "enablement_plan", EmptyDict)
        IN /\ final_decision.economic_enablement.training_programs =
                  Get(plan, "training_recommendations", <<>>)
           /\ final_decision.economic_enablement.job_matching =
                  Get(plan, "job_opportunities", <<>>)

C9_Witness ==
    /\ decision_made
    /\ final_decision.status = "review_required"
    /\ final_decision.financial_support.approved_amount = 0
    /\ final_decision.economic_enablement.training_programs # <<>>
    /\ final_decision.economic_enablement.job_matching # <<>>

-----------------------------------------------------------------------------
(* C10: when the enrichment call of the financial or the career stage      *)
(* raises, returns something that is not a dict, or returns a dict without *)
(* a true success indicator, the stage returns the rule-based baseline     *)
(* unmodified, and the run has not failed.                                 *)

enrichment_failed ==
    /\ llm_client = "available"
    /\ llm_payload # None
    /\ \/ llm_payload.kind # "dict"
       \/ "success" \notin DOMAIN llm_payload.value
       \/ llm_payload.value.success # TRUE

C10_FailedEnrichmentKeepsBaseline ==
    /\ (pc = "career_start" /\ enrichment_failed) =>
           /\ stage_done("financial_analysis")
           /\ stage_result("financial_analysis") = financial_baseline(application_data)
           /\ error = "none"
    /\ (pc \in {"decision", "returned", "raised"} /\ stage_done("career_assessment")
            /\ enrichment_failed) =>
           /\ stage_result("career_assessment") = career_baseline(application_data)
           /\ pc = "raised" => _make_final_decision_raises(
                                   stage_result("financial_analysis"),
                                   stage_result("career_assessment"))

\* all three attempts of the financial enrichment raised
C10_Witness ==
    /\ pc = "career_start"
    /\ llm_client = "available"
    /\ llm_payload = _fallback_analysis
    /\ stage_result("financial_analysis") = financial_baseline(application_data)
    /\ stage_result("financial_analysis").analysis_source = "rule_based"

-----------------------------------------------------------------------------
(* C11: an enrichment payload with success = true whose fields have the    *)
(* wrong type (a non-numeric eligibility_score, an enablement_plan that is *)
(* not a dict) is not merged: the stage output is the rule-based baseline, *)
(* and a run whose financial stage has returned does not end in an error.  *)

wrongly_typed(payload) ==
    /\ payload # None
    /\ IsDict(payload)
    /\ Get(payload.value, "success", FALSE)
    /\ \/ ~IsNumber(Get(payload.value, "eligibility_score", PyInt(0)))
       \/ "str" \in DOMAIN Get(payload.value, "enablement_plan", EmptyDict)

C11_WronglyTypedPayloadIsRejected ==
    /\ (pc = "career_start" /\ wrongly_typed(llm_payload)) =>
           stage_result("financial_analysis") = financial_baseline(application_data)
    /\ (pc \in {"decision", "returned", "raised"} /\ stage_done("career_assessment")
            /\ wrongly_typed(llm_payload)) =>
           stage_result("career_assessment") = career_baseline(application_data)
    /\ (pc = "raised") => ~stage_done("financial_analysis")

-----------------------------------------------------------------------------
(* C12: when a stage has accepted and merged an enrichment payload, every  *)
(* baseline field the payload does not specify has its rule-based value in *)
(* the stage output, the fields inside the career assessment and the       *)
(* enablement plan included; only the provenance tag changes.              *)

NestedFields == {"career_assessment", "enablement_plan"}

unspecified_fields_kept(base, payload, output) ==
    \A k \in DOMAIN base \ {"analysis_source"} :
        IF k \notin DOMAIN payload
        THEN k \in DOMAIN output /\ output[k] = base[k]
        ELSE k \in NestedFields =>
                 \A j \in DOMAIN base[k] \ DOMAIN payload[k] :
                     j \in DOMAIN output[k] /\ output[k][j] = base[k][j]

\* an accepted payload whose fields have the types of the expected format
well_formed_accepted(payload) ==
    payload # None /\ payload_accepted(payload) /\ ~wrongly_typed(payload)

C12_UnspecifiedFieldsKeepBaseline ==
    /\ (pc = "career_start" /\ well_formed_accepted(llm_payload)) =>
           unspecified_fields_kept(financial_baseline(application_data),
                                   llm_payload.value,
                                   stage_result("financial_analysis"))
    /\ (pc \in {"decision", "returned", "raised"} /\ stage_done("career_assessment")
            /\ well_formed_accepted(llm_payload)) =>
           unspecified_fields_kept(career_baseline(application_data),
                                   llm_payload.value,
                                   stage_result("career_assessment"))

-----------------------------------------------------------------------------
(* C13: the analysis_source of a stage output is "llm" exactly when the    *)
(* stage invocation accepted and merged an enrichment payload, and         *)
(* "rule_based" otherwise: with no collaborator, after a failed call, and  *)
(* after a rejected payload. The document stage never merges a payload.    *)

provenance(payload) ==
    IF payload # None /\ payload_accepted(payload) THEN "llm" ELSE "rule_based"

C13_ProvenanceTagTellsEnrichment ==
    /\ (started /\ stage_done("document_processing")) =>
           stage_result("document_processing").analysis_source = "rule_based"
    /\ (pc = "career_start") =>
           stage_result("financial_analysis").analysis_source = provenance(llm_payload)
    /\ (pc \in {"decision", "returned", "raised"} /\ stage_done("career_assessment")) =>
           stage_result("career_assessment").analysis_source = provenance(llm_payload)

\* a run whose financial enrichment was rejected and whose career enrichment
\* was merged
C13_Witness ==
    /\ pc = "decision"
    /\ llm_client = "available"
    /\ stage_result("financial_analysis").analysis_source = "rule_based"
    /\ stage_result("career_assessment").analysis_source = "llm"
    /\ payload_accepted(llm_payload)

-----------------------------------------------------------------------------
(* C14: within a run, the financial and the career stage each move only    *)
(* along not_started -> (enrichment_attempted) -> (enriched or             *)
(* rule_based_retained) -> done: the rule-based baseline is held whenever  *)
(* an enrichment is under way or has come back, an enrichment is never     *)
(* attempted a second time, and no stage goes back to not_started.         *)

StageKey(stage) == IF stage = "financial" THEN "financial_analysis" ELSE "career_assessment"

rule_based_baseline(stage) ==
    IF stage = "financial" THEN financial_baseline(application_data)
    ELSE career_baseline(application_data)

stage_state(stage) ==
    IF ~started THEN "not_started"
    ELSE IF stage_done(StageKey(stage)) THEN "done"
    ELSE IF pc \in (IF stage = "financial" THEN {"fin_llm", "fin_sleep"}
                                            ELSE {"career_llm", "career_sleep"})
    THEN "enrichment_attempted"
    ELSE IF pc = (IF stage = "financial" THEN "fin_merge" ELSE "career_merge")
    THEN (IF payload_accepted(llm_payload) THEN "enriched" ELSE "rule_based_retained")
    ELSE "not_started"

StageTransitions ==
    {<<"not_started", "enrichment_attempted">>, <<"not_started", "done">>,
     <<"enrichment_attempted", "enriched">>,
     <<"enrichment_attempted", "rule_based_retained">>,
     <<"enriched", "done">>, <<"rule_based_retained", "done">>}

StageStep(stage) ==
    /\ \/ stage_state(stage)' = stage_state(stage)
       \/ <<stage_state(stage), stage_state(stage)'>> \in StageTransitions
    /\ stage_state(stage)' \in {"enrichment_attempted", "enriched", "rule_based_retained"}
           => baseline' = rule_based_baseline(stage)'

C14_StageStateMachine ==
    [][\A stage \in {"financial", "career"} : StageStep(stage)]_vars

\* both stages are done: the financial one was enriched, the career one kept
\* its baseline after an enrichment that failed
C14_Witness ==
    /\ pc = "decision"
    /\ stage_state("financial") = "done"
    /\ stage_state("career") = "done"
    /\ stage_result("financial_analysis").analysis_source = "llm"
    /\ stage_result("career_assessment").analysis_source = "rule_based"
    /\ llm_payload = _fallback_analysis

-----------------------------------------------------------------------------
(* C15: one enrichment call makes at most max_retries = 3 attempts; a      *)
(* further attempt is made only after a failed one and only after the      *)
(* sleep; the first attempt that gets a response ends the call; and when   *)
(* the third attempt fails too, the stage takes its rule-based baseline    *)
(* and the run goes on without an error.                                   *)

calling == pc \in {"fin_llm", "career_llm"}

sleeping == pc \in {"fin_sleep", "career_sleep"}

merging == pc \in {"fin_merge", "career_merge"}

RetryStep ==
    /\ (calling \/ sleeping) => attempt < max_retries
    /\ attempt' > attempt => (sleeping /\ calling' /\ attempt' = attempt + 1)
    /\ sleeping' => (calling /\ attempt' = attempt /\ attempt < max_retries - 1)
    /\ (calling /\ llm_payload' # llm_payload) => merging'
    /\ (calling /\ ~calling' /\ ~sleeping') => (merging' /\ error' = "none")
    /\ (calling /\ merging' /\ llm_payload' = _fallback_analysis) =>
           attempt = max_retries - 1
    /\ (merging /\ llm_payload = _fallback_analysis /\ pc' # pc) =>
           /\ pc' \in {"career_start", "decision"}
           /\ error' = "none"
           /\ \E stage \in {"financial", "career"} :
                  /\ pc = MergePc(stage)
                  /\ stage_result(StageKey(stage))' = rule_based_baseline(stage)

C15_AtMostThreeAttemptsThenBaseline ==
    [][RetryStep]_vars

\* a run that returned a decision although all three attempts of its last
\* enrichment call had failed
C15_Witness ==
    /\ decision_made
    /\ llm_client = "available"
    /\ llm_payload = _fallback_analysis
    /\ stage_result("career_assessment").analysis_source = "rule_based"
    /\ error = "none"

-----------------------------------------------------------------------------
(* The run under fair scheduling: the event loop always runs a step of the *)
(* program that is ready, and a sleep always ends.  Nothing obliges the    *)
(* collaborator to answer a chat request or to break the connection.       *)

ProgramStep ==
    \/ DocumentProcess
    \/ DocumentAnalyzeWithLLM
    \/ CheckDocuments
    \/ FinancialProcess
    \/ FinancialMerge
    \/ CareerProcess
    \/ CareerMerge
    \/ MakeFinalDecision
    \/ \E stage \in {"financial", "career"} : Sleep(stage)

FairSpec == Init /\ [][Next]_vars /\ WF_vars(ProgramStep)

-----------------------------------------------------------------------------
(* C16: an enrichment call does not wait for ever: when the collaborator   *)
(* never answers, the call is given up, the stage goes on with its         *)
(* baseline, and the run comes to its end with a final decision.           *)

C16_EnrichmentCallTimesOut == calling ~> finished

-----------------------------------------------------------------------------
(* C19: an exception raised inside a stage or inside the synthesizer is    *)
(* not swallowed: the run does not go on past it and does not return; it   *)
(* ends with an error raised to the caller of process, and no final        *)
(* decision has been made.                                                 *)

past_financial_stage ==
    pc \in {"career_start", "career_llm", "career_sleep", "career_merge", "decision"}
        \/ (pc = "returned" /\ document_check_passed)

C19_ExceptionsReachTheCaller ==
    /\ pc = "raised" =>
           /\ error # "none"
           /\ final_decision = EmptyDict
           /\ Len(processing_history["decision_orchestrator"]) > 0
           /\ ~processing_history["decision_orchestrator"][
                   Len(processing_history["decision_orchestrator"])].success
    /\ pc # "raised" => error = "none"
    /\ past_financial_stage => ~financial_baseline_raises(enhanced_data)
    /\ (pc = "returned" /\ document_check_passed) =>
           ~_make_final_decision_raises(stage_result("financial_analysis"),
                                        stage_result("career_assessment"))

\* the financial stage raised on a salary that is None
C19_Witness ==
    /\ pc = "raised"
    /\ error = "Orchestration failed: Financial analysis failed: TypeError"
    /\ ~stage_done("financial_analysis")
    /\ final_decision = EmptyDict

-----------------------------------------------------------------------------
(* C20: once a stage has returned its output, no later step of the run     *)
(* changes that output, and no step of the run changes the application     *)
(* record it was given.                                                    *)

OutputsKept ==
    (started /\ pc' # "idle") =>
        /\ application_data' = application_data
        /\ \A stage_name \in DOMAIN processing_results.processing_stages :
               /\ stage_name \in DOMAIN processing_results'.processing_stages
               /\ processing_results'.processing_stages[stage_name] =
                      stage_result(stage_name)

C20_ReturnedOutputsAreNotMutated ==
    [][OutputsKept]_vars

-----------------------------------------------------------------------------
(* Several runs through one OrchestratorAgent (the API holds one instance  *)
(* for all requests, the demo driver one for all applications).  The run   *)
(* whose step is executed has its locals in the variables; a run that      *)
(* awaits the collaborator or the sleep can be suspended, and another run  *)
(* is started or resumed meanwhile.  A new interpreter process has new     *)
(* agents and its own set order.                                           *)

MaxRuns == 2

\* an application with two documents missing and two with all documents
RunApplications ==
    {[documents |-> <<DocumentChoices[1]>>]
         @@ Applicant("dubai", 5, "unemployed", PyInt(0), "", 12000, "Data Analyst"),
     [documents |-> <<DocumentChoices[1], DocumentChoices[2], DocumentChoices[4]>>]
         @@ Applicant("abu_dhabi", 3, "self_employed", PyInt(10000), "Bank teller",
                      12000, ""),
     [documents |-> <<DocumentChoices[1], DocumentChoices[2], DocumentChoices[4]>>]
         @@ Applicant("sharjah", 3, "employed", PyInt(4500), "", 12000,
                      "Digital marketing")}

\* the answer the collaborator gives a run when it answers
RunResponseTexts(stage) ==
    IF stage = "financial"
    THEN {[json |-> "object",
           value |-> [success |-> TRUE, eligibility_score |-> PyInt(90),
                      decision_recommendation |-> "approve",
                      recommended_support_amount |-> 30000,
                      support_duration_months |-> 12]]}
    ELSE {[json |-> "object",
           value |-> [success |-> TRUE,
                      enablement_plan |->
                          [training_recommendations |->
                               <<[name |-> "AI Engineering Diploma"]>>,
                           job_opportunities |-> <<"Machine Learning Engineer">>],
                      recommended_timeline |-> "3 months"]]}

\* the two orders in which a process can list the two document types that the
\* first of the RunApplications lacks
RunSetOrders ==
    {<<"emirates_id", "bank_statement", "utility_bill">>,
     <<"emirates_id", "utility_bill", "bank_statement">>}

\* the values of `locals` when no run is being executed
IdleLocals == <<"idle", None, None, PyNone, None, 0, None, "none">>

\* variant: the application is kept on the orchestrator, where all runs see
\* it, and not in a local variable
SetLocals_application_on_orchestrator(v) ==
    /\ pc' = v[1]
    /\ application_data' = application_data
    /\ processing_results' = v[3]
    /\ missing_docs' = v[4]
    /\ baseline' = v[5]
    /\ attempt' = v[6]
    /\ llm_payload' = v[7]
    /\ error' = v[8]

\* the run with the locals v becomes the one that is executed
SetLocals(v) ==
    /\ pc' = v[1]
    /\ application_data' = v[2]
    /\ processing_results' = v[3]
    /\ missing_docs' = v[4]
    /\ baseline' = v[5]
    /\ attempt' = v[6]
    /\ llm_payload' = v[7]
    /\ error' = v[8]

awaiting == calling \/ sleeping

\* what the caller of process gets: the returned context, or an AgentError
outcome ==
    [result |-> IF pc = "returned" THEN processing_results ELSE None,
     error |-> error]

\* the demo driver numbers the applications it submits
ApplicationIds == <<"UAE-DEMO-001", "UAE-DEMO-002", "UAE-DEMO-003", "UAE-DEMO-004">>

StartRun(application) ==
    LET started_so_far == Len(completed) + Len(suspended)
    IN /\ started_so_far < MaxRuns
       /\ Process([application_id |-> PyStr(ApplicationIds[started_so_far + 1])]
                      @@ application)

\* the run awaits asyncio.to_thread or asyncio.sleep: the event loop is free
Suspend ==
    /\ awaiting
    /\ suspended' = Append(suspended, locals)
    /\ SetLocals(IdleLocals)
    /\ UNCHANGED <<ai_processor, workflow, llm_client, set_order, completed, processing_history>>

Resume(i) ==
    /\ pc = "idle"
    /\ i \in 1..Len(suspended)
    /\ SetLocals(suspended[i])
    /\ suspended' = SubSeq(suspended, 1, i - 1) \o SubSeq(suspended, i + 1, Len(suspended))
    /\ UNCHANGED <<ai_processor, workflow, llm_client, set_order, completed, processing_history>>

\* process returns or raises to its caller
Deliver ==
    /\ finished
    /\ completed' = Append(completed,
                           [application |-> application_data,
                            enrichment |-> client_available] @@ outcome)
    /\ SetLocals(IdleLocals)
    /\ UNCHANGED <<ai_processor, workflow, llm_client, set_order, suspended, processing_history>>

\* the service is started again
Restart ==
    /\ pc = "idle"
    /\ suspended = <<>>
    /\ completed # <<>>
    /\ Len(completed) < MaxRuns
    /\ set_order' \in RunSetOrders \ {set_order}
    /\ processing_history' = [a \in AgentNames |-> <<>>]
    /\ UNCHANGED <<ai_processor, workflow, llm_client, suspended, completed, locals>>

NextRuns ==
    \/ \E application \in RunApplications : StartRun(application)
    \/ DocumentProcess
    \/ DocumentAnalyzeWithLLM
    \/ CheckDocuments
    \/ FinancialProcess
    \/ \E stage \in {"financial", "career"} : ChatFails(stage)
    \/ \E stage \in {"financial", "career"} : Sleep(stage)
    \/ \E stage \in {"financial", "career"} :
           \E response_text \in RunResponseTexts(stage) : ChatResponds(stage, response_text)
    \/ FinancialMerge
    \/ CareerProcess
    \/ CareerMerge
    \/ MakeFinalDecision
    \/ Suspend
    \/ \E i \in 1..MaxRuns : Resume(i)
    \/ Deliver
    \/ Restart

InitRuns == Init /\ set_order \in RunSetOrders

SpecRuns == InitRuns /\ [][NextRuns]_vars

-----------------------------------------------------------------------------
(* What process gives its caller when it is the only run: the pipeline as  *)
(* a function of the application, of the set order of the process and of   *)
(* the answers of the collaborator.                                        *)

solo_context(application) ==
    [application_id |-> Get(application, "application_id", None),
     processing_stages |-> EmptyDict,
     final_decision |-> EmptyDict,
     processing_timeline |-> <<>>]

solo_document_result(order, application) ==
    LET doc_results ==
            [document_insights |-> _collect_document_insights(application.documents)]
                @@ _rule_based_result(application)
        missing ==
            list_of_set(order, Range(REQUIRED_DOCUMENT_TYPES)
                                   \ Range(doc_results.documents_processed))
    IN [missing_documents |-> missing] @@ doc_results

\* the outputs a stage can return for the input it is given
SoloStageOutputs(stage, enrichment, input_data) ==
    LET base == IF stage = "financial" THEN financial_baseline(input_data)
                ELSE career_baseline(input_data)
        accepted == {payload \in {generate_structured_response(response_text) :
                                      response_text \in RunResponseTexts(stage)} :
                         payload_accepted(payload)}
    IN {base} \cup
       (IF ~enrichment THEN {}
        ELSE {IF stage = "financial" THEN _merge_llm_assessment(base, payload.value)
              ELSE _merge_llm_plan(base, payload.value) : payload \in accepted})

solo_decision(context, financial_results, career_results) ==
    IF _make_final_decision_raises(financial_results, career_results)
    THEN [result |-> None,
          error |-> orchestration_failed(
                        _make_final_decision_exception(financial_results, career_results))]
    ELSE [result |->
              [context EXCEPT
                  !.processing_stages =
                      ("financial_analysis" :> financial_results)
                          @@ ("career_assessment" :> career_results) @@ @,
                  !.final_decision =
                      _make_final_decision(financial_results, career_results)],
          error |-> "none"]

SoloOutcomes(order, enrichment, application) ==
    LET doc_results == solo_document_result(order, application)
        context == [solo_context(application) EXCEPT
                       !.processing_stages = ("document_processing" :> doc_results)]
        input_data == doc_results @@ application
    IN IF document_check_fails(doc_results, doc_results.missing_documents)
       THEN {[result |-> _handle_document_failure(
                             context, doc_results, PyList(doc_results.missing_documents)),
              error |-> "none"]}
       ELSE IF financial_baseline_raises(input_data)
       THEN {[result |-> None,
              error |-> "Orchestration failed: Financial analysis failed: TypeError"]}
       ELSE {solo_decision(context, financial_results, career_results) :
                 financial_results \in SoloStageOutputs("financial", enrichment, input_data),
                 career_results \in SoloStageOutputs("career", enrichment, input_data)}

-----------------------------------------------------------------------------
(* C17: when several runs go through one OrchestratorAgent and their steps *)
(* interleave, what each run gives its caller is something that run gives  *)
(* when it is the only one: no run's stage output or decision depends on   *)
(* another run.                                                            *)

C17_ConcurrentRunsAreIndependent ==
    /\ finished => outcome \in SoloOutcomes(set_order, client_available, application_data)
    /\ (started /\ stage_done("document_processing")) =>
           \A stage \in {"financial", "career"} :
               stage_done(StageKey(stage)) =>
                   stage_result(StageKey(stage)) \in
                       SoloStageOutputs(stage, client_available, enhanced_data)

\* a run ends while another run, of a different application, is suspended in
\* its career stage, and the run that ends was itself resumed after being
\* suspended behind that run
C17_Witness ==
    /\ finished
    /\ decision_made
    /\ Len(suspended) = 1
    /\ suspended[1][1] \in {"career_llm", "career_sleep"}
    /\ suspended[1][2].documents = application_data.documents
    /\ suspended[1][2].personal_info # application_data.personal_info
    /\ stage_result("financial_analysis").analysis_source = "llm"
    /\ suspended[1][3].processing_stages["financial_analysis"].analysis_source = "rule_based"

-----------------------------------------------------------------------------
(* C18: two invocations of the pipeline on the same application record     *)
(* (same sections, same documents), both with enrichment disabled, give    *)
(* identical final decisions, whatever runs happen between them.           *)

\* the ApplicationRecord and documents of an application: every section but
\* the number under which it was submitted
record_of(application) ==
    [k \in DOMAIN application \ {"application_id"} |-> application[k]]

\* the final decision a delivered run gave its caller
decision_of(run) ==
    IF run.result = None THEN None ELSE Get(run.result, "final_decision", None)

repeated(i, j) ==
    /\ i < j
    /\ record_of(completed[i].application) = record_of(completed[j].application)
    /\ ~completed[i].enrichment
    /\ ~completed[j].enrichment

C18_RepeatedRunsDecideAlike ==
    \A i, j \in 1..Len(completed) :
        repeated(i, j) => decision_of(completed[i]) = decision_of(completed[j])

-----------------------------------------------------------------------------
(* AIProcessor (scripts/ai_processor.py): the weighted multi-factor        *)
(* eligibility assessment.                                                 *)
(*                                                                         *)
(* Scores are Python floats.  They are modelled as exact fractions of a    *)
(* point: a score is an integer number of 1/30000 points, which represents *)
(* exactly every value the scorers produce when salaries are multiples of  *)
(* 500 AED (the income thresholds are 15000, 20000, 25000 and 30000), the  *)
(* weights are whole percents and the perturbation is a multiple of 0.01.  *)

Pt(n) == n * 30000

Max(a, b) == IF a >= b THEN a ELSE b

\* self.processing_rules; weights and approval rates in percent
processing_rules ==
    [emergency_support |->
        [max_amount |-> 50000, income_threshold |-> 15000, approval_rate |-> 75,
         weight_factors |-> [income |-> 30, family |-> 25, urgency |-> 25, employment |-> 20]],
     financial_assistance |->
        [max_amount |-> 40000, income_threshold |-> 20000, approval_rate |-> 65,
         weight_factors |-> [income |-> 35, family |-> 20, urgency |-> 20, employment |-> 25]],
     economic_enablement |->
        [max_amount |-> 45000, income_threshold |-> 25000, approval_rate |-> 80,
         weight_factors |-> [income |-> 25, family |-> 15, urgency |-> 15, employment |-> 45]],
     career_development |->
        [max_amount |-> 35000, income_threshold |-> 30000, approval_rate |-> 85,
         weight_factors |-> [income |-> 20, family |-> 10, urgency |-> 10, employment |-> 60]],
     both |->
        [max_amount |-> 50000, income_threshold |-> 20000, approval_rate |-> 70,
         weight_factors |-> [income |-> 30, family |-> 20, urgency |-> 20, employment |-> 30]]]

\* self.processing_rules.get(support_type, self.processing_rules['emergency_support'])
rules_for(support_type) ==
    Get(processing_rules, support_type, processing_rules.emergency_support)

\* salary / threshold, as a score
salary_ratio(salary, threshold) ==
    (Pt(1) * (salary \div 500)) \div (threshold \div 500)

\* variant: the last band is not floored at 0
_calculate_income_score_unfloored(salary, threshold) ==
    IF salary = 0 THEN Pt(25)
    ELSE IF 2 * salary <= threshold THEN Pt(25)
    ELSE IF salary <= threshold THEN Pt(20) - salary_ratio(salary, threshold) * 5
    ELSE IF 2 * salary <= 3 * threshold
         THEN Pt(15) - (salary_ratio(salary, threshold) - Pt(1)) * 15
    ELSE Pt(5) - (salary_ratio(salary, threshold) - Pt(3) \div 2) * 2

_calculate_income_score(salary, threshold) ==
    IF salary = 0 THEN Pt(25)
    ELSE IF 2 * salary <= threshold THEN Pt(25)
    ELSE IF salary <= threshold THEN Pt(20) - salary_ratio(salary, threshold) * 5
    ELSE IF 2 * salary <= 3 * threshold
         THEN Pt(15) - (salary_ratio(salary, threshold) - Pt(1)) * 15
    ELSE Max(0, Pt(5) - (salary_ratio(salary, threshold) - Pt(3) \div 2) * 2)

\* variant: a dependency ratio of exactly 0.5 earns the bonus of 3
_calculate_family_score_half_included(family_size, dependents) ==
    LET base_score == Min(dependents * 3, 15)
        size_bonus == IF family_size > 6 THEN 5
                      ELSE IF family_size > 4 THEN 3
                      ELSE 0
        ratio_bonus == IF family_size > 0
                       THEN IF 10 * dependents > 7 * family_size THEN 5
                            ELSE IF 2 * dependents >= family_size THEN 3
                            ELSE 0
                       ELSE 0
    IN Pt(Min(base_score + size_bonus + ratio_bonus, 25))

_calculate_family_score(family_size, dependents) ==
    LET base_score == Min(dependents * 3, 15)
        size_bonus == IF family_size > 6 THEN 5
                      ELSE IF family_size > 4 THEN 3
                      ELSE 0
        \* dependents / family_size > 0.7, > 0.5
        ratio_bonus == IF family_size > 0
                       THEN IF 10 * dependents > 7 * family_size THEN 5
                            ELSE IF 2 * dependents > family_size THEN 3
                            ELSE 0
                       ELSE 0
    IN Pt(Min(base_score + size_bonus + ratio_bonus, 25))

_calculate_employment_score(status, experience) ==
    LET base_scores == [Unemployed |-> 25, Retired |-> 20, Employed |-> 5]
                           @@ ("Self-Employed" :> 15)
        base_score == Get(base_scores, status, 10)
    IN IF status = "Self-Employed" /\ experience > 5 THEN Pt(base_score + 5)
       ELSE IF status = "Employed" /\ experience < 2 THEN Pt(base_score + 5)
       ELSE Pt(base_score)

_calculate_urgency_score(urgency) ==
    Pt(Get([low |-> 5, medium |-> 10, high |-> 18, critical |-> 25], urgency, 5))

\* requested > max_amount * 0.8 and > max_amount * 0.5, without fractions
_calculate_amount_score(requested, max_amount) ==
    IF requested > max_amount THEN Pt(-15)
    ELSE IF 5 * requested > 4 * max_amount THEN Pt(-8)
    ELSE IF 2 * requested > max_amount THEN Pt(-3)
    ELSE Pt(0)

_calculate_nationality_score(nationality) ==
    IF nationality = "UAE" THEN Pt(5) ELSE Pt(0)

recommendation_thresholds(support_type) ==
    IF support_type = "career_development"
    THEN [approve |-> 70, conditional |-> 55, documents |-> 40, assess |-> 30]
    ELSE IF support_type = "emergency_support"
    THEN [approve |-> 75, conditional |-> 60, documents |-> 45, assess |-> 35]
    ELSE [approve |-> 72, conditional |-> 58, documents |-> 42, assess |-> 32]

\* variant: the answers of the two bands below "documents" are exchanged
_determine_recommendation_labels_swapped(score, support_type) ==
    LET thresholds == recommendation_thresholds(support_type)
    IN IF score >= Pt(thresholds.approve) THEN "Approved"
       ELSE IF score >= Pt(thresholds.conditional) THEN "Conditional Approval"
       ELSE IF score >= Pt(thresholds.documents) THEN "Documents Required"
       ELSE IF score >= Pt(thresholds.assess) THEN "Under Review"
       ELSE IF score >= Pt(25) THEN "Assessment"
       ELSE "Declined"

_determine_recommendation(score, support_type) ==
    LET thresholds == recommendation_thresholds(support_type)
    IN IF score >= Pt(thresholds.approve) THEN "Approved"
       ELSE IF score >= Pt(thresholds.conditional) THEN "Conditional Approval"
       ELSE IF score >= Pt(thresholds.documents) THEN "Documents Required"
       ELSE IF score >= Pt(thresholds.assess) THEN "Assessment"
       ELSE IF score >= Pt(25) THEN "Under Review"
       ELSE "Declined"

-----------------------------------------------------------------------------
(* The scorers called on their own, as unit tests call them: the arguments *)
(* are drawn in the initial state and the call returns the score.          *)

MaxSalarySteps == 140

MaxFamily == 10

MaxExperience == 7

MaxAmountSteps == 60

SupportTypes ==
    {"emergency_support", "financial_assistance", "economic_enablement",
     "career_development", "both", "housing_support"}

EmploymentStatuses == {"Unemployed", "Retired", "Self-Employed", "Employed", "Student", ""}

UrgencyLevels == {"low", "medium", "high", "critical", "urgent"}

Nationalities == {"UAE", "India", ""}

\* scores from 0 to 100 in steps of half a point
ScoreInputs == {(Pt(1) \div 2) * k : k \in 0..200}

ScorerCalls ==
    {[method |-> "_calculate_income_score", salary |-> 500 * k,
      threshold |-> processing_rules[t].income_threshold] :
        k \in 0..MaxSalarySteps, t \in DOMAIN processing_rules}
    \cup
    {[method |-> "_calculate_family_score", family_size |-> n, dependents |-> d] :
        n \in 1..MaxFamily, d \in 0..(MaxFamily - 1)}
    \cup
    {[method |-> "_calculate_employment_score", status |-> st, experience |-> e] :
        st \in EmploymentStatuses, e \in 0..MaxExperience}
    \cup
    {[method |-> "_calculate_urgency_score", urgency |-> u] : u \in UrgencyLevels}
    \cup
    {[method |-> "_calculate_amount_score", requested |-> 1000 * k,
      max_amount |-> processing_rules[t].max_amount] :
        k \in 0..MaxAmountSteps, t \in DOMAIN processing_rules}
    \cup
    {[method |-> "_calculate_nationality_score", nationality |-> n] : n \in Nationalities}
    \cup
    {[method |-> "_determine_recommendation", score |-> s, support_type |-> t] :
        s \in ScoreInputs, t \in SupportTypes}

InitScorers ==
    /\ InitPipeline
    /\ llm_client = "none"
    /\ set_order = REQUIRED_DOCUMENT_TYPES
    /\ InitWorkflow
    /\ ai_call \in ScorerCalls
    /\ ai_result = None
    /\ processing_stats =
           [total_processed |-> 0, total_approved |-> 0, average_score |-> 0,
            processing_time_avg |-> 0]
    /\ random_source = None

\* the call in ai_call returns value
Returns(method, value) ==
    /\ ai_call # None
    /\ ai_call.method = method
    /\ ai_result = None
    /\ ai_result' = [value |-> value]
    /\ UNCHANGED <<pipeline, workflow, ai_call, processing_stats, random_source>>

IncomeScoreCall ==
    /\ ai_call # None /\ ai_call.method = "_calculate_income_score"
    /\ Returns("_calculate_income_score",
               _calculate_income_score(ai_call.salary, ai_call.threshold))

FamilyScoreCall ==
    /\ ai_call # None /\ ai_call.method = "_calculate_family_score"
    /\ Returns("_calculate_family_score",
               _calculate_family_score(ai_call.family_size, ai_call.dependents))

EmploymentScoreCall ==
    /\ ai_call # None /\ ai_call.method = "_calculate_employment_score"
    /\ Returns("_calculate_employment_score",
               _calculate_employment_score(ai_call.status, ai_call.experience))

UrgencyScoreCall ==
    /\ ai_call # None /\ ai_call.method = "_calculate_urgency_score"
    /\ Returns("_calculate_urgency_score", _calculate_urgency_score(ai_call.urgency))

AmountScoreCall ==
    /\ ai_call # None /\ ai_call.method = "_calculate_amount_score"
    /\ Returns("_calculate_amount_score",
               _calculate_amount_score(ai_call.requested, ai_call.max_amount))

NationalityScoreCall ==
    /\ ai_call # None /\ ai_call.method = "_calculate_nationality_score"
    /\ Returns("_calculate_nationality_score",
               _calculate_nationality_score(ai_call.nationality))

DetermineRecommendationCall ==
    /\ ai_call # None /\ ai_call.method = "_determine_recommendation"
    /\ Returns("_determine_recommendation",
               _determine_recommendation(ai_call.score, ai_call.support_type))

NextScorers ==
    \/ IncomeScoreCall
    \/ FamilyScoreCall
    \/ EmploymentScoreCall
    \/ UrgencyScoreCall
    \/ AmountScoreCall
    \/ NationalityScoreCall
    \/ DetermineRecommendationCall

SpecScorers == InitScorers /\ [][NextScorers]_vars

\* the call of method has returned
returned(method) == ai_call # None /\ ai_call.method = method /\ ai_result # None

-----------------------------------------------------------------------------
(* C21: each factor score stays in its documented range: for salary >= 0   *)
(* the income score is in [0,25] and is 25 when the salary is 0; for       *)
(* family_size >= 1 and 0 <= dependents < family_size the family score is  *)
(* in [0,25]; the employment and urgency scores are in [0,25]; the amount  *)
(* penalty is in [-15,0]; the nationality bonus is 0 or 5.                 *)

in_range(low, high) == Pt(low) <= ai_result.value /\ ai_result.value <= Pt(high)

C21_FactorScoresStayInRange ==
    /\ returned("_calculate_income_score") =>
           /\ in_range(0, 25)
           /\ ai_call.salary = 0 => ai_result.value = Pt(25)
    /\ (returned("_calculate_family_score") /\ ai_call.dependents < ai_call.family_size) =>
           in_range(0, 25)
    /\ returned("_calculate_employment_score") => in_range(0, 25)
    /\ returned("_calculate_urgency_score") => in_range(0, 25)
    /\ returned("_calculate_amount_score") => in_range(-15, 0)
    /\ returned("_calculate_nationality_score") => ai_result.value \in {Pt(0), Pt(5)}

\* a salary above four times the threshold scores 0: the floor of the last band
C21_Witness ==
    /\ returned("_calculate_income_score")
    /\ ai_call.salary > 4 * ai_call.threshold
    /\ ai_result.value = 0

-----------------------------------------------------------------------------
(* C23: for a fixed support category the recommendation never gets lower   *)
(* when the score gets higher, in the order Declined < Under Review <      *)
(* Assessment < Documents Required < Conditional Approval < Approved.      *)

Tier(recommendation) ==
    CASE recommendation = "Declined" -> 0
      [] recommendation = "Under Review" -> 1
      [] recommendation = "Assessment" -> 2
      [] recommendation = "Documents Required" -> 3
      [] recommendation = "Conditional Approval" -> 4
      [] recommendation = "Approved" -> 5

C23_RecommendationIsMonotonic ==
    returned("_determine_recommendation") =>
        \A s2 \in ScoreInputs :
            s2 > ai_call.score =>
                Tier(_determine_recommendation(s2, ai_call.support_type))
                    >= Tier(ai_result.value)

\* a score in the Assessment band of a category without thresholds of its own
C23_Witness ==
    /\ returned("_determine_recommendation")
    /\ ai_call.support_type = "both"
    /\ ai_call.score = Pt(32)
    /\ ai_result.value = "Assessment"

-----------------------------------------------------------------------------
(* AIProcessor.assess_eligibility *)

\* the values of round(score, 1), in tenths of a point, for a score >= 0: the
\* nearest tenth; for a score halfway between two tenths the float that holds it
\* may lie on either side, and round follows the float
round_tenths(score) ==
    LET tenth == Pt(1) \div 10
        down == score \div tenth
        rest == score % tenth
    IN IF 2 * rest < tenth THEN {down}
       ELSE IF 2 * rest > tenth THEN {down + 1}
       ELSE {down, down + 1}

\* confidence in hundredths; jitter is the draw of random.uniform(-0.05, 0.05)
_calculate_confidence(score, recommendation, jitter) ==
    LET by_score == IF score > Pt(80) \/ score < Pt(20) THEN 25
                    ELSE IF score > Pt(70) \/ score < Pt(30) THEN 15
                    ELSE 0
        confidence_modifiers ==
            ("Approved" :> 10) @@ ("Declined" :> 10) @@ ("Conditional Approval" :> 5)
            @@ ("Documents Required" :> -5) @@ ("Assessment" :> -10)
            @@ ("Under Review" :> -15)
    IN Max(30, Min(98, 60 + by_score + Get(confidence_modifiers, recommendation, 0)
                           + jitter))

_assess_employment_stability(status, experience) ==
    IF status = "Unemployed" THEN "Unstable"
    ELSE IF status = "Retired" THEN "Stable"
    ELSE IF status = "Self-Employed"
         THEN IF experience > 3 THEN "Moderate" ELSE "Variable"
    ELSE IF status = "Employed"
         THEN IF experience > 2 THEN "Stable" ELSE "Developing"
    ELSE "Unknown"

_calculate_risk_level(score, amount) ==
    IF score > Pt(75) /\ amount < 30000 THEN "Low"
    ELSE IF score > Pt(60) /\ amount < 40000 THEN "Medium"
    ELSE IF score > Pt(45) THEN "Medium-High"
    ELSE "High"

\* f"{days} working days"
_estimate_processing_time(urgency, recommendation) ==
    LET base_days ==
            ("Approved" :> 5) @@ ("Conditional Approval" :> 7)
            @@ ("Documents Required" :> 10) @@ ("Assessment" :> 14)
            @@ ("Under Review" :> 18) @@ ("Declined" :> 3)
        days == Get(base_days, recommendation, 14)
    IN <<IF urgency = "critical" THEN Max(1, days - 3)
         ELSE IF urgency = "high" THEN Max(2, days - 2)
         ELSE IF urgency = "low" THEN days + 3
         ELSE days,
         "working days">>

_get_required_documents(support_type, recommendation) ==
    LET base_docs == <<"emirates_id", "salary_certificate", "bank_statement">>
        support_specific_docs ==
            [emergency_support |-> <<"medical_report", "emergency_justification">>,
             financial_assistance |-> <<"utility_bills", "rent_agreement">>,
             economic_enablement |-> <<"business_plan", "market_study">>,
             career_development |->
                 <<"training_application", "cv", "educational_certificates">>,
             both |-> <<"comprehensive_support_plan">>]
        required_docs == base_docs \o Get(support_specific_docs, support_type, <<>>)
    IN IF recommendation \in {"Documents Required", "Assessment"}
       THEN required_docs \o <<"additional_income_proof", "family_certificate">>
       ELSE required_docs

\* AIProcessor._generate_next_steps
assessor_next_steps(recommendation) ==
    LET steps ==
            ("Approved" :>
                <<"Application approved for processing",
                  "Support amount will be processed within 5 working days",
                  "You will receive SMS and email confirmation",
                  "Case worker will contact you for final details">>)
            @@ ("Conditional Approval" :>
                <<"Application conditionally approved",
                  "Please provide additional documentation within 7 days",
                  "Case worker will review submitted documents",
                  "Final approval expected within 10 working days">>)
            @@ ("Documents Required" :>
                <<"Additional documents needed for processing",
                  "Please submit required documents within 14 days",
                  "Use the online portal or visit nearest service center",
                  "Application will be re-assessed upon document submission">>)
            @@ ("Assessment" :>
                <<"Application requires detailed assessment",
                  "Case worker will contact you within 3 working days",
                  "Prepare for potential interview or site visit",
                  "Assessment process may take up to 21 days">>)
            @@ ("Under Review" :>
                <<"Application under comprehensive review",
                  "Additional information may be requested",
                  "Review process typically takes 15-20 working days",
                  "Please ensure contact information is current">>)
            @@ ("Declined" :>
                <<"Application does not meet current eligibility criteria",
                  "You may reapply after 6 months if circumstances change",
                  "Consider applying for alternative support programs",
                  "Contact support team for detailed explanation">>)
    IN Get(steps, recommendation, <<"Please contact support for next steps">>)

\* support_type.replace('_', ' ').title()
title(support_type) ==
    Get([emergency_support |-> "Emergency Support",
         financial_assistance |-> "Financial Assistance",
         economic_enablement |-> "Economic Enablement",
         career_development |-> "Career Development",
         both |-> "Both",
         housing_support |-> "Housing Support"], support_type, "")

\* the sentences of the notes, but for the date of the assessment
_generate_detailed_processing_notes(recommendation, score_1f, confidence, factors, support_type) ==
    LET recommendation_reasons ==
            ("Approved" :> "All eligibility criteria met with strong supporting indicators.")
            @@ ("Conditional Approval" :>
                "Meets basic criteria but requires verification of specific conditions.")
            @@ ("Documents Required" :>
                "Eligible but needs additional documentation for final assessment.")
            @@ ("Assessment" :>
                "Requires detailed case worker evaluation due to complex circumstances.")
            @@ ("Under Review" :>
                "Application needs comprehensive review by assessment committee.")
            @@ ("Declined" :> "Does not meet minimum eligibility requirements at this time.")
    IN <<<<"AI Assessment completed for", title(support_type), "application.">>,
         <<"Overall eligibility score:", score_1f, "/100 with", confidence,
           "confidence level.">>,
         <<"Income assessment:", factors.income_assessment.meets_threshold,
           "Income threshold requirement.">>>>
       \o (IF factors.family_assessment.score > Pt(15)
           THEN <<"Family situation indicates high support need due to dependents.">>
           ELSE <<>>)
       \o <<<<"Employment stability assessed as:",
              factors.employment_assessment.employment_stability>>,
            Get(recommendation_reasons, recommendation, "Standard processing applied.")>>

_update_processing_stats(stats, score, recommendation) ==
    LET total == stats.total_processed + 1
    IN [stats EXCEPT
           !.total_processed = total,
           !.total_approved =
               IF recommendation \in {"Approved", "Conditional Approval"} THEN @ + 1 ELSE @,
           !.average_score = ((@ * (total - 1)) + score) \div total]

\* variant: the score is not raised to 0 when the penalties make it negative
clamp_upper_only(score) == Min(Pt(100), score)

\* max(0, min(100, final_score))
clamp(score) == Max(0, Min(Pt(100), score))

\* final_score after line 130; variance is the draw of random.uniform(-3, 3), in
\* hundredths of a point
final_score_of(application, variance) ==
    LET personal_info == Get(application, "personal_info", EmptyDict)
        employment_info == Get(application, "employment_info", EmptyDict)
        support_request == Get(application, "support_request", EmptyDict)
        rules == rules_for(Get(support_request, "support_type", ""))
        weights == rules.weight_factors
        weighted_score ==
            (_calculate_income_score(Get(employment_info, "monthly_salary", 0),
                                     rules.income_threshold) * weights.income
             + _calculate_family_score(Get(personal_info, "family_size", 1),
                                       Get(personal_info, "dependents", 0)) * weights.family
             + _calculate_employment_score(Get(employment_info, "employment_status", ""),
                                           Get(employment_info, "years_of_experience", 0))
                   * weights.employment
             + _calculate_urgency_score(Get(support_request, "urgency_level", "low"))
                   * weights.urgency) \div 100
    IN clamp(weighted_score
             + _calculate_amount_score(Get(support_request, "amount_requested", 0),
                                       rules.max_amount)
             + _calculate_nationality_score(Get(personal_info, "nationality", ""))
             + variance * (Pt(1) \div 100))

\* the dict assess_eligibility returns, but for assessed_at (the clock);
\* eligibility_score is one of round_tenths(final_score)
assess_eligibility(application, draws, eligibility_score) ==
    LET personal_info == Get(application, "personal_info", EmptyDict)
        employment_info == Get(application, "employment_info", EmptyDict)
        support_request == Get(application, "support_request", EmptyDict)
        family_size == Get(personal_info, "family_size", 1)
        dependents == Get(personal_info, "dependents", 0)
        monthly_salary == Get(employment_info, "monthly_salary", 0)
        years_experience == Get(employment_info, "years_of_experience", 0)
        employment_status == Get(employment_info, "employment_status", "")
        support_type == Get(support_request, "support_type", "")
        amount_requested == Get(support_request, "amount_requested", 0)
        urgency_level == Get(support_request, "urgency_level", "low")
        nationality == Get(personal_info, "nationality", "")
        rules == rules_for(support_type)
        final_score == final_score_of(application, draws.variance)
        recommendation == _determine_recommendation(final_score, support_type)
        confidence == _calculate_confidence(final_score, recommendation, draws.jitter)
        assessment_factors ==
            [income_assessment |->
                [score |-> _calculate_income_score(monthly_salary, rules.income_threshold),
                 monthly_salary |-> monthly_salary,
                 threshold |-> rules.income_threshold,
                 meets_threshold |-> monthly_salary <= rules.income_threshold],
             family_assessment |->
                [score |-> _calculate_family_score(family_size, dependents),
                 family_size |-> family_size,
                 dependents |-> dependents,
                 dependency_ratio |->
                     IF family_size > 0 THEN <<dependents, "/", family_size>> ELSE <<0>>],
             employment_assessment |->
                [score |-> _calculate_employment_score(employment_status, years_experience),
                 status |-> employment_status,
                 experience_years |-> years_experience,
                 employment_stability |->
                     _assess_employment_stability(employment_status, years_experience)],
             urgency_assessment |->
                [score |-> _calculate_urgency_score(urgency_level),
                 urgency_level |-> urgency_level,
                 priority_processing |-> urgency_level \in {"high", "critical"}],
             amount_assessment |->
                [score |-> _calculate_amount_score(amount_requested, rules.max_amount),
                 amount_requested |-> amount_requested,
                 max_allowed |-> rules.max_amount,
                 within_limits |-> amount_requested <= rules.max_amount]]
    IN [eligibility_score |-> eligibility_score,
        recommendation |-> recommendation,
        confidence_level |-> confidence,
        assessment_factors |-> assessment_factors,
        processing_notes |->
            _generate_detailed_processing_notes(recommendation, eligibility_score,
                                                confidence, assessment_factors,
                                                support_type),
        risk_level |-> _calculate_risk_level(final_score, amount_requested),
        estimated_processing_time |->
            _estimate_processing_time(urgency_level, recommendation),
        required_documents |-> _get_required_documents(support_type, recommendation),
        next_steps |-> assessor_next_steps(recommendation),
        assessment_version |-> "1.0.0"]

\* applications handed to assess_eligibility: every combination of the values
\* below, and an application without any field
AssessedApplications ==
    {EmptyDict} \cup
    {[personal_info |-> [family_size |-> family[1], dependents |-> family[2],
                         nationality |-> nationality],
      employment_info |-> [monthly_salary |-> salary, employment_status |-> job[1],
                           years_of_experience |-> job[2]],
      support_request |-> [support_type |-> support_type, amount_requested |-> amount,
                           urgency_level |-> urgency]] :
        family \in {<<1, 0>>, <<4, 2>>, <<5, 3>>, <<7, 5>>},
        nationality \in {"UAE", "India"},
        salary \in {0, 12000, 18000, 70000},
        job \in {<<"Unemployed", 0>>, <<"Employed", 0>>, <<"Employed", 5>>,
                 <<"Self-Employed", 6>>},
        support_type \in SupportTypes,
        amount \in {15000, 45000, 60000},
        urgency \in {"low", "high", "critical"}}

\* draws of random.uniform(-3, 3) and random.uniform(-0.05, 0.05), in hundredths
RandomDraws == [variance : {-300, 0, 300}, jitter : {-5, 0, 5}]

InitAssess ==
    /\ InitPipeline
    /\ llm_client = "none"
    /\ set_order = REQUIRED_DOCUMENT_TYPES
    /\ InitWorkflow
    /\ ai_call \in {[method |-> "assess_eligibility", application |-> a] :
                        a \in AssessedApplications}
    /\ ai_result = None
    /\ processing_stats =
           [total_processed |-> 0, total_approved |-> 0, average_score |-> 0,
            processing_time_avg |-> 0]
    /\ random_source \in RandomDraws

AssessEligibility ==
    /\ ai_call # None
    /\ ai_call.method = "assess_eligibility"
    /\ ai_result = None
    /\ LET final_score == final_score_of(ai_call.application, random_source.variance)
       IN /\ \E eligibility_score \in round_tenths(final_score) :
                 ai_result' = [value |-> assess_eligibility(ai_call.application,
                                                            random_source,
                                                            eligibility_score)]
          /\ processing_stats' =
                 _update_processing_stats(
                     processing_stats, final_score,
                     _determine_recommendation(
                         final_score,
                         Get(Get(ai_call.application, "support_request", EmptyDict),
                             "support_type", "")))
    /\ UNCHANGED <<pipeline, workflow, ai_call, random_source>>

NextAssess == AssessEligibility

SpecAssess == InitAssess /\ [][NextAssess]_vars

\* the support type of the application in ai_call
requested_type ==
    Get(Get(ai_call.application, "support_request", EmptyDict), "support_type", "")

-----------------------------------------------------------------------------
(* C22: the eligibility score that assess_eligibility returns is within    *)
(* [0,100] for every application and every perturbation in [-3,+3].        *)

C22_ScoreIsClamped ==
    returned("assess_eligibility") =>
        /\ ai_result.value.eligibility_score >= 0
        /\ ai_result.value.eligibility_score <= 1000

\* the penalties outweigh the weighted score: without the clamp it is negative
C22_Witness ==
    /\ returned("assess_eligibility")
    /\ ai_result.value.eligibility_score = 0
    /\ ai_result.value.assessment_factors.amount_assessment.score = Pt(-15)
    /\ ai_result.value.assessment_factors.income_assessment.score = 0
    /\ random_source.variance = 0

-----------------------------------------------------------------------------
(* C24, as stated: Scenario A (an unemployed citizen, salary 0, family of  *)
(* 4 with 2 dependents, 15000 requested as emergency support, urgency      *)
(* high, no perturbation) gets the factor scores income 25, family 9,      *)
(* employment 25, urgency 18, penalty 0, bonus 5, the final score 24.25    *)
(* and the recommendation Declined.                                        *)

ScenarioA ==
    [personal_info |-> [family_size |-> 4, dependents |-> 2, nationality |-> "UAE"],
     employment_info |-> [monthly_salary |-> 0, employment_status |-> "Unemployed",
                          years_of_experience |-> 0],
     support_request |-> [support_type |-> "emergency_support",
                          amount_requested |-> 15000, urgency_level |-> "high"]]

scenario_a_assessed ==
    /\ returned("assess_eligibility")
    /\ ai_call.application = ScenarioA
    /\ random_source.variance = 0

\* the factor scores of Scenario A other than the family score
scenario_a_other_factors ==
    /\ ai_result.value.assessment_factors.income_assessment.score = Pt(25)
    /\ ai_result.value.assessment_factors.employment_assessment.score = Pt(25)
    /\ ai_result.value.assessment_factors.urgency_assessment.score = Pt(18)
    /\ ai_result.value.assessment_factors.amount_assessment.score = Pt(0)
    /\ _calculate_nationality_score(ai_call.application.personal_info.nationality) = Pt(5)

C24_ScenarioAAsStated ==
    scenario_a_assessed =>
        /\ scenario_a_other_factors
        /\ ai_result.value.assessment_factors.family_assessment.score = Pt(9)
        /\ final_score_of(ai_call.application, 0) = Pt(24) + Pt(1) \div 4
        /\ ai_result.value.recommendation = "Declined"

(* C24, amended: in Scenario A the family score is 6 (a dependency ratio   *)
(* of exactly 0.5 earns no bonus), the other factor scores are as stated,  *)
(* the final score is 23.5 and the recommendation is Declined.             *)
C24_ScenarioA ==
    scenario_a_assessed =>
        /\ scenario_a_other_factors
        /\ ai_result.value.assessment_factors.family_assessment.score = Pt(6)
        /\ final_score_of(ai_call.application, 0) = Pt(23) + Pt(1) \div 2
        /\ ai_result.value.eligibility_score = 235
        /\ ai_result.value.recommendation = "Declined"

C24_Witness ==
    /\ scenario_a_assessed
    /\ ai_result.value.recommendation = "Declined"
    /\ processing_stats.total_processed = 1

-----------------------------------------------------------------------------
(* C25: for a support type that processing_rules does not list, the score  *)
(* and the recommendation are those the same application gets, with the    *)
(* same perturbation, as emergency support.                                *)

as_emergency_support(application) ==
    [support_request |->
        [support_type |-> "emergency_support"]
            @@ Get(application, "support_request", EmptyDict)]
    @@ application

C25_UnlistedTypeIsAssessedAsEmergency ==
    (returned("assess_eligibility") /\ requested_type \notin DOMAIN processing_rules) =>
        LET emergency_score ==
                final_score_of(as_emergency_support(ai_call.application),
                               random_source.variance)
        IN /\ ai_result.value.eligibility_score \in round_tenths(emergency_score)
           /\ ai_result.value.recommendation =
                  _determine_recommendation(emergency_score, "emergency_support")

-----------------------------------------------------------------------------
(* C26: every financial stage output that the final decision is made from  *)
(* has a score within [0,100], whether it is the rule-based baseline or    *)
(* was overwritten by an accepted enrichment payload.                      *)

\* the financial output has been handed, or is about to be handed, to
\* _make_final_decision
consumed ==
    /\ pc \in {"decision", "returned", "raised"}
    /\ stage_done("financial_analysis")
    /\ stage_done("career_assessment")

C26_ConsumedScoreInRange ==
    (consumed /\ IsNumber(stage_result("financial_analysis").eligibility_score)) =>
        /\ stage_result("financial_analysis").eligibility_score.int >= 0
        /\ stage_result("financial_analysis").eligibility_score.int <= 100

-----------------------------------------------------------------------------
(* C28: when the enrichment is disabled, the approved amount of a final    *)
(* decision is at most the requested amount and at most six times the      *)
(* applicant's monthly salary; an applicant whose salary is 0 is granted   *)
(* the amount 0 for 0 months, even with the status approved.               *)

enrichment_disabled == ~client_available

\* the run returned a decision made by _make_final_decision
decided == pc = "returned" /\ "financial_support" \in DOMAIN final_decision

-----------------------------------------------------------------------------
(* C29: when the enrichment is disabled the financial stage's score is     *)
(* between 50 and 100 and its recommendation is never soft_decline; in     *)
(* every run, with or without enrichment, the status of a final decision   *)
(* is approved, conditional_approval, review_required or                   *)
(* documents_required.                                                     *)

FINAL_STATUSES ==
    {"approved", "conditional_approval", "review_required", "documents_required"}

C29_NoSoftDecline ==
    /\ (started /\ enrichment_disabled /\ stage_done("financial_analysis")) =>
           LET financial_results == stage_result("financial_analysis")
           IN /\ financial_results.eligibility_score.int >= 50
              /\ financial_results.eligibility_score.int <= 100
              /\ financial_results.decision_recommendation # "soft_decline"
    /\ (started /\ final_decision # EmptyDict) =>
           final_decision.status \in FINAL_STATUSES

\* the lowest rule-based score, 50, ends in review_required
C29_Witness ==
    /\ pc = "returned"
    /\ enrichment_disabled
    /\ stage_done("financial_analysis")
    /\ stage_result("financial_analysis").eligibility_score = PyInt(50)
    /\ stage_result("financial_analysis").decision_recommendation = "review_required"
    /\ final_decision.status = "review_required"

-----------------------------------------------------------------------------
(* C30: the enrichment of the document stage never takes effect: whether   *)
(* or not the collaborator is available, the output of the document stage  *)
(* is the rule-based result, tagged rule_based.                            *)

\* the result DocumentProcessorAgent.process builds before any enrichment
rule_based_document_result ==
    [document_insights |-> _collect_document_insights(application_data.documents)]
        @@ _rule_based_result(application_data)

C30_DocumentEnrichmentNeverTakesEffect ==
    (started /\ stage_done("document_processing")) =>
        /\ stage_result("document_processing").analysis_source = "rule_based"
        /\ \A field \in DOMAIN rule_based_document_result :
               stage_result("document_processing")[field] =
                   rule_based_document_result[field]

\* the collaborator was available and the stage came back from its call
C30_Witness ==
    /\ client_available
    /\ pc = "doc_check"
    /\ stage_done("document_processing")
    /\ stage_result("document_processing").analysis_source = "rule_based"

-----------------------------------------------------------------------------
(* UAESocialSupportWorkflow (orchestration/langgraph_workflow.py): the run *)
(* of process_application through the nodes document_processing and       *)
(* financial_analysis, with the two agents of agents/llm_powered_agents.py *)

\* application_data as the caller passes it: a section is a dict, null or absent
WorkflowApplications ==
    {[application_id |-> "UAE-1",
      personal_info |-> PyDict([emirate |-> "dubai", family_size |-> 4]),
      employment_info |-> PyDict([employment_status |-> "employed"]),
      support_request |-> PyDict([amount_requested |-> 12000])],
     [personal_info |-> PyDict([emirate |-> "sharjah"])],
     [application_id |-> "UAE-3", personal_info |-> PyNone],
     [application_id |-> "UAE-4",
      personal_info |-> PyDict([emirate |-> "dubai"]),
      employment_info |-> PyNone],
     [application_id |-> "UAE-5",
      personal_info |-> PyDict([emirate |-> "dubai"]),
      support_request |-> PyNone]}

\* `application_data.get(section, {}).get(...)`: AttributeError when the section
\* is there and is not a dict
section_lookup_raises(data, sections) ==
    \E section \in sections \cap DOMAIN data :
        ~IsDict(data[section])

\* the JSON objects the model lets the LLM answer the document prompt with
DocumentAnalysisPayloads ==
    {[success |-> TRUE, documents_processed |-> <<"emirates_id">>,
      overall_confidence |-> 90],
     [success |-> TRUE, documents_processed |-> <<"emirates_id", "bank_statement">>,
      inconsistencies |-> <<"salary mismatch">>, overall_confidence |-> 60],
     [success |-> FALSE, documents_processed |-> <<>>, overall_confidence |-> 20],
     [success |-> FALSE, inconsistencies |-> <<"unreadable">>],
     [documents_processed |-> <<"emirates_id">>]}

\* the JSON objects the model lets the LLM answer the financial prompt with
FinancialAnalysisPayloads ==
    {[success |-> TRUE, eligibility_score |-> 85, decision_recommendation |-> "approve"],
     [success |-> TRUE, eligibility_score |-> 55,
      decision_recommendation |-> "conditional_approve"],
     [success |-> FALSE, eligibility_score |-> 0,
      decision_recommendation |-> "decline"],
     [eligibility_score |-> 30]}

WorkflowPayloads(prompt_type) ==
    IF prompt_type = "document_analysis" THEN DocumentAnalysisPayloads
    ELSE FinancialAnalysisPayloads

\* what `await self.llm._acall(prompt)` does: it raises (generate_response gave
\* up) or returns text that is not JSON, a JSON list or a JSON object
AcallOutcomes(prompt_type) ==
    {[raises |-> TRUE],
     [raises |-> FALSE, response |-> [json |-> "invalid"]],
     [raises |-> FALSE, response |-> [json |-> "list"]]}
        \cup {[raises |-> FALSE, response |-> [json |-> "object", value |-> p]] :
                  p \in WorkflowPayloads(prompt_type)}

\* json.loads on a response that is JSON
json_loads(response) ==
    IF response.json = "list" THEN PyList(<<>>) ELSE PyDict(response.value)

llm_interaction(agent_name, prompt_type) ==
    [agent |-> agent_name, prompt_type |-> prompt_type, success |-> TRUE]

\* DocumentProcessorAgent.process_documents: whether it raises, and else the
\* value it returns and the llm_interactions it leaves in the state
process_documents(state, acall) ==
    IF section_lookup_raises(state.application_data, {"personal_info", "employment_info"})
    THEN [raises |-> TRUE]
    ELSE IF acall.raises
    THEN [raises |-> FALSE,
          value |-> PyDict([success |-> FALSE, error |-> "RuntimeError",
                            documents_processed |-> <<>>, overall_confidence |-> 0]),
          llm_interactions |-> state.llm_interactions]
    ELSE [raises |-> FALSE,
          value |-> IF acall.response.json = "invalid"
                    THEN PyDict([success |-> TRUE,
                                 documents_processed |-> <<"emirates_id", "employment_docs">>,
                                 authenticity_scores |-> [emirates_id |-> 95, employment |-> 90],
                                 extracted_data |-> [llm_analysis |-> "invalid"],
                                 inconsistencies |-> <<>>,
                                 overall_confidence |-> 92,
                                 processing_notes |-> "LLM analysis completed successfully"])
                    ELSE json_loads(acall.response),
          llm_interactions |->
              Append(state.llm_interactions,
                     llm_interaction("llm_document_processor", "document_analysis"))]

\* FinancialAnalyzerAgent.analyze_financial_eligibility, likewise
analyze_financial_eligibility(state, acall) ==
    IF section_lookup_raises(state.application_data,
                             {"personal_info", "employment_info", "support_request"})
    THEN [raises |-> TRUE]
    ELSE IF acall.raises \/ acall.response.json = "invalid"
    THEN [raises |-> FALSE,
          value |-> PyDict([success |-> FALSE,
                            error |-> IF acall.raises THEN "RuntimeError"
                                      ELSE "JSONDecodeError",
                            eligibility_score |-> 0,
                            decision_recommendation |-> "review_required"]),
          llm_interactions |-> state.llm_interactions]
    ELSE [raises |-> FALSE,
          value |-> json_loads(acall.response),
          llm_interactions |->
              Append(state.llm_interactions,
                     llm_interaction("llm_financial_analyzer", "financial_analysis"))]

WorkflowProcessApplication(application) ==
    /\ workflow_node = "idle"
    /\ workflow_state' =
           [application_data |-> application,
            application_id |-> Get(application, "application_id", "UAE-generated"),
            document_analysis |-> PyNone,
            financial_assessment |-> PyNone,
            career_evaluation |-> PyNone,
            eligibility_determination |-> PyNone,
            final_decision |-> PyNone,
            recommendations |-> <<>>,
            processing_stage |-> "started",
            errors |-> <<>>,
            processing_log |-> <<>>,
            llm_interactions |-> <<>>,
            chat_history |-> <<>>,
            user_queries |-> <<>>]
    /\ workflow_node' = "document_processing"
    /\ UNCHANGED <<pipeline, ai_processor, agent_calls>>

\* _process_documents; `doc_results.get` raises AttributeError on a result that
\* is not a dict, after the result and the stage were stored
WorkflowProcessDocuments(acall) ==
    /\ workflow_node = "document_processing"
    /\ LET doc_results == process_documents(workflow_state, acall)
       IN workflow_state' =
              IF doc_results.raises
              THEN [workflow_state EXCEPT
                       !.errors = Append(@, "Document processing error: AttributeError"),
                       !.processing_stage = "documents_failed"]
              ELSE IF ~IsDict(doc_results.value)
              THEN [workflow_state EXCEPT
                       !.llm_interactions = doc_results.llm_interactions,
                       !.document_analysis = doc_results.value,
                       !.errors = Append(@, "Document processing error: AttributeError"),
                       !.processing_stage = "documents_failed"]
              ELSE [workflow_state EXCEPT
                       !.llm_interactions = doc_results.llm_interactions,
                       !.document_analysis = doc_results.value,
                       !.processing_stage = "documents_completed",
                       !.processing_log =
                           Append(@, [stage |-> "document_processing",
                                      success |-> Get(doc_results.value.value,
                                                      "success", FALSE),
                                      confidence |-> Get(doc_results.value.value,
                                                         "overall_confidence", 0)])]
    /\ agent_calls' = Append(agent_calls, "process_documents")
    /\ workflow_node' = "financial_analysis"
    /\ UNCHANGED <<pipeline, ai_processor>>

\* `if state["processing_stage"] == "documents_failed"`
skip_financial_analysis(state) ==
    state.processing_stage = "documents_failed"

\* _analyze_finances
WorkflowAnalyzeFinances(acall) ==
    /\ workflow_node = "financial_analysis"
    /\ IF skip_financial_analysis(workflow_state)
       THEN /\ workflow_state' =
                   [workflow_state EXCEPT
                       !.financial_assessment =
                           PyDict([success |-> FALSE, skipped |-> TRUE])]
            /\ UNCHANGED agent_calls
       ELSE LET financial_results ==
                    analyze_financial_eligibility(workflow_state, acall)
            IN /\ workflow_state' =
                      IF financial_results.raises
                      THEN [workflow_state EXCEPT
                               !.errors = Append(@, "Financial analysis error: AttributeError"),
                               !.processing_stage = "financial_failed"]
                      ELSE IF ~IsDict(financial_results.value)
                      THEN [workflow_state EXCEPT
                               !.llm_interactions = financial_results.llm_interactions,
                               !.financial_assessment = financial_results.value,
                               !.errors = Append(@, "Financial analysis error: AttributeError"),
                               !.processing_stage = "financial_failed"]
                      ELSE [workflow_state EXCEPT
                               !.llm_interactions = financial_results.llm_interactions,
                               !.financial_assessment = financial_results.value,
                               !.processing_stage = "financial_completed",
                               !.processing_log =
                                   Append(@, [stage |-> "financial_analysis",
                                              success |-> Get(financial_results.value.value,
                                                              "success", FALSE),
                                              eligibility_score |->
                                                  Get(financial_results.value.value,
                                                      "eligibility_score", 0)])]
               /\ agent_calls' = Append(agent_calls, "analyze_financial_eligibility")
    /\ workflow_node' = "career_evaluation"
    /\ UNCHANGED <<pipeline, ai_processor>>

NextWorkflow ==
    \/ \E application \in WorkflowApplications : WorkflowProcessApplication(application)
    \/ \E acall \in AcallOutcomes("document_analysis") : WorkflowProcessDocuments(acall)
    \/ \E acall \in AcallOutcomes("financial_analysis") : WorkflowAnalyzeFinances(acall)

SpecWorkflow == Init /\ [][NextWorkflow]_vars

-----------------------------------------------------------------------------
(* C27: in the LangGraph workflow, when document processing failed (the    *)
(* document agent reported success = false, or raised), the financial      *)
(* stage is skipped: financial_assessment is {success: false, skipped:     *)
(* true} and the financial agent has not been called.                      *)

\* the document agent raised (no result was stored) or reported success = false
document_processing_failed ==
    \/ workflow_state.document_analysis = PyNone
    \/ /\ IsDict(workflow_state.document_analysis)
       /\ Get(workflow_state.document_analysis.value, "success", TRUE) = FALSE

financial_analysis_ran == workflow_node = "career_evaluation"

C27_FailedDocumentsSkipFinances ==
    (financial_analysis_ran /\ document_processing_failed) =>
        /\ workflow_state.financial_assessment =
               PyDict([success |-> FALSE, skipped |-> TRUE])
        /\ "analyze_financial_eligibility" \notin Range(agent_calls)

====
